---------------------------- MODULE Spec2Model ----------------------------
(***************************************************************************)
(* Model of the GPS-track / trail-segment reconciliation code of the      *)
(* onyxhikes map page.  Two deployed variants of the script exist:        *)
(*   "snap"     src/unnamed/part_000 : processSegmentData runs the        *)
(*              three-strategy matcher on the first GPX track and an      *)
(*              accepted path has its end points replaced by the targets; *)
(*   "preserve" src/scripts/main.js  : processSegmentData maps GPX tracks *)
(*              to segments by name, and the matcher keeps the recorded   *)
(*              GPS end points.                                           *)
(*                                                                         *)
(* Numbers.  Coordinates are fixed-point integers with `steps' units per  *)
(* degree (0.1 degree), so that the points createInterpolatedPath         *)
(* computes between whole-degree end points are exact.  Distances in      *)
(* degrees use the same unit; distances in metres are whole metres.       *)
(* Indices are 0-based as in the JavaScript; At(s, i) reads s[i].         *)
(*                                                                         *)
(* Loops.  A for-loop is a recursive operator that carries the loop's     *)
(* variables through the iterations lo .. hi-1 in order; a range of more  *)
(* than one iteration is run as its first half followed by its second     *)
(* half, which keeps the recursion shallow on tracks of thousands of      *)
(* points without changing the order of the iterations.  Operator        *)
(* arguments are evaluated on demand, so the second half waits on         *)
(* Done(first half), which is TRUE once the first half's result is        *)
(* computed.                                                              *)
(***************************************************************************)
EXTENDS Integers, Sequences, FiniteSets, TLC

(***************************************************************************)
(* Program constants                                                       *)
(***************************************************************************)
steps == 10                \* createInterpolatedPath: const steps = 10
Scale == steps             \* fixed-point units per degree
maxDistance == 3 * Scale   \* let maxDistance = 3.0 (degrees)
MAX_VALUE == 1000000000    \* Number.MAX_VALUE: above every distance here
SampleAbove == 300         \* if (rawGpsSegment.length > 300)
SampleTo == 200            \* intelligentSample(rawGpsSegment, 200)
CoarseDivisor == 1000      \* Math.floor(coordinates.length / 1000)
MinRadius == 50            \* Math.max(50, searchStep * 2)
MinGap == 10               \* for (let j = i + 10; ...)
NearbyLimit == 5             \* findNearbyIndices(...).slice(0, 5)
NumColors == 15              \* getSegmentColor: const colors = [15 colours]
DegToMeters == 111000      \* calculateDistance(...) * 111000
EarthRadius == 6371000     \* haversineMeters: const R = 6371000

(***************************************************************************)
(* JavaScript arrays                                                       *)
(***************************************************************************)
At(s, i) == s[i + 1]

\* TRUE, once s has been computed
Done(s) == s = s

\* Array.prototype.slice(a, b): elements a .. b-1, clipped to the array.
Slice(s, a, b) ==
  LET lo == IF a < 0 THEN 0 ELSE a
      hi == IF b > Len(s) THEN Len(s) ELSE b
  IN  IF hi <= lo THEN << >> ELSE SubSeq(s, lo + 1, hi)

Max2(a, b) == IF a >= b THEN a ELSE b
Min2(a, b) == IF a <= b THEN a ELSE b
Abs(x) == IF x < 0 THEN -x ELSE x

\* p => [p.lat, p.lon]
ToCoord(p) == << p.lat, p.lon >>
ToCoords(points) == [k \in 1..Len(points) |-> ToCoord(points[k])]

(***************************************************************************)
(* Math.sqrt on the fixed-point grid: the integer square root (rounded    *)
(* down), found by bisection.  It is exact whenever the true distance is  *)
(* a grid value, which is the case for points on one meridian or          *)
(* parallel and for 3-4-5 offsets.                                        *)
(***************************************************************************)
RECURSIVE SqrtBetween(_, _, _)
SqrtBetween(n, lo, hi) ==
  IF lo >= hi THEN lo
  ELSE LET mid == (lo + hi + 1) \div 2
       IN  IF mid * mid <= n THEN SqrtBetween(n, mid, hi)
                             ELSE SqrtBetween(n, lo, mid - 1)

Sqrt(n) == SqrtBetween(n, 0, Min2(n, 46340))

\* calculateDistance(coord1, coord2), in fixed-point degrees
calculateDistance(coord1, coord2) ==
  LET dLat == coord1[1] - coord2[1]
      dLon == coord1[2] - coord2[2]
  IN  IF dLon = 0 THEN Abs(dLat)
      ELSE IF dLat = 0 THEN Abs(dLon)
      ELSE Sqrt(dLat * dLat + dLon * dLon)

\* calculateTotalDistance(coordinates): iterations lo .. hi-1 of the loop
RECURSIVE TotalLoop(_, _, _, _)
TotalLoop(coordinates, lo, hi, total) ==
  IF hi <= lo THEN total
  ELSE IF hi = lo + 1
       THEN total + calculateDistance(At(coordinates, lo - 1), At(coordinates, lo))
  ELSE LET mid == (lo + hi) \div 2
           first == TotalLoop(coordinates, lo, mid, total)
       IN  IF Done(first) THEN TotalLoop(coordinates, mid, hi, first) ELSE first

calculateTotalDistance(coordinates) == TotalLoop(coordinates, 1, Len(coordinates), 0)

(***************************************************************************)
(* haversineMeters(a, b).  On one meridian (dLon = 0) the formula is      *)
(* R * dLat in radians, i.e. R * pi / 180 metres per degree; 355/113 is   *)
(* pi to seven digits.  Every track of this model lies on one meridian;   *)
(* elsewhere the same scale is applied to the planar distance.            *)
(***************************************************************************)
MetersPerDegree == ((EarthRadius \div 180) * 355) \div 113

haversineMeters(a, b) == (MetersPerDegree * calculateDistance(a, b)) \div Scale

\* computeCumulativeMeters(coords): cum[0] = 0, cum[i] = cum[i-1] + haversine
RECURSIVE CumLoop(_, _, _, _)
CumLoop(coords, lo, hi, cum) ==
  IF hi <= lo THEN cum
  ELSE IF hi = lo + 1
       THEN Append(cum, At(cum, lo - 1)
                          + haversineMeters(At(coords, lo - 1), At(coords, lo)))
  ELSE LET mid == (lo + hi) \div 2
           first == CumLoop(coords, lo, mid, cum)
       IN  IF Done(first) THEN CumLoop(coords, mid, hi, first) ELSE first

computeCumulativeMeters(coords) ==
  IF Len(coords) = 0 THEN << >> ELSE CumLoop(coords, 1, Len(coords), << 0 >>)

(***************************************************************************)
(* Optional results: a function that returns a path or null.              *)
(***************************************************************************)
NoPath == [some |-> FALSE, path |-> << >>]
SomePath(p) == [some |-> TRUE, path |-> p]

(***************************************************************************)
(* findClosestPointIndex(coordinates, targetCoord)                        *)
(***************************************************************************)
\* the body of both passes: if (distance < minDistance) { ... }, on the
\* loop variables best = [minDistance, closestIndex]
CloserOf(coordinates, targetCoord, i, best) ==
  LET distance == calculateDistance(At(coordinates, i), targetCoord)
  IN  IF distance < best.minDistance
      THEN [minDistance |-> distance, closestIndex |-> i]
      ELSE best

\* number of iterations of  for (i = from; i < to; i += stride)
Iterations(from, to, stride) ==
  IF to <= from THEN 0 ELSE (to - from + stride - 1) \div stride

\* iterations lo .. hi-1 of that loop; iteration k looks at i = from + k * stride
RECURSIVE ScanLoop(_, _, _, _, _, _, _)
ScanLoop(coordinates, targetCoord, from, stride, lo, hi, best) ==
  IF hi <= lo THEN best
  ELSE IF hi = lo + 1
       THEN CloserOf(coordinates, targetCoord, from + lo * stride, best)
  ELSE LET mid == (lo + hi) \div 2
           first == ScanLoop(coordinates, targetCoord, from, stride, lo, mid, best)
       IN  IF Done(first)
           THEN ScanLoop(coordinates, targetCoord, from, stride, mid, hi, first)
           ELSE first

ScanClosest(coordinates, targetCoord, from, to, stride, closestIndex) ==
  ScanLoop(coordinates, targetCoord, from, stride, 0, Iterations(from, to, stride),
           [minDistance |-> MAX_VALUE, closestIndex |-> closestIndex]).closestIndex

searchStepOf(coordinates) == Max2(1, Len(coordinates) \div CoarseDivisor)

\* first pass: every searchStep-th point of the whole array
CoarsePass(coordinates, targetCoord) ==
  ScanClosest(coordinates, targetCoord, 0, Len(coordinates),
              searchStepOf(coordinates), 0)

searchRadiusOf(coordinates) == Max2(MinRadius, searchStepOf(coordinates) * 2)

\* second pass: every point of the window around the first pass's index
findClosestPointIndex(coordinates, targetCoord) ==
  LET coarse      == CoarsePass(coordinates, targetCoord)
      searchStart == Max2(0, coarse - searchRadiusOf(coordinates))
      searchEnd   == Min2(Len(coordinates), coarse + searchRadiusOf(coordinates))
  IN  ScanClosest(coordinates, targetCoord, searchStart, searchEnd, 1, coarse)

(***************************************************************************)
(* intelligentSample(coordinates, targetPoints)                           *)
(***************************************************************************)
\* Math.round(num / den) for den > 0: the nearest integer, halves upwards
RoundDiv(num, den) == (2 * num + den) \div (2 * den)

\* an index computed with half the step
SampleIndexHalfStep(length, targetPoints, i) ==
  RoundDiv(i * (length - 1), 2 * (targetPoints - 1))

\* index = Math.round(i * step), step = (length - 1) / (targetPoints - 1)
SampleIndex(length, targetPoints, i) ==
  RoundDiv(i * (length - 1), targetPoints - 1)

\* iterations lo .. hi-1 of  for (let i = 1; i < targetPoints - 1; i++)
RECURSIVE SampleLoop(_, _, _, _, _)
SampleLoop(coordinates, targetPoints, lo, hi, result) ==
  IF hi <= lo THEN result
  ELSE IF hi = lo + 1
       THEN Append(result,
                   At(coordinates, SampleIndex(Len(coordinates), targetPoints, lo)))
  ELSE LET mid == (lo + hi) \div 2
           first == SampleLoop(coordinates, targetPoints, lo, mid, result)
       IN  IF Done(first)
           THEN SampleLoop(coordinates, targetPoints, mid, hi, first)
           ELSE first

\* a sampler that would leave out the last point
intelligentSampleOpen(coordinates, targetPoints) ==
  IF Len(coordinates) <= targetPoints THEN coordinates
  ELSE SampleLoop(coordinates, targetPoints, 1, targetPoints - 1,
                  << At(coordinates, 0) >>)

\* a sampler that returns early only for an array shorter than targetPoints
intelligentSampleStrict(coordinates, targetPoints) ==
  IF Len(coordinates) < targetPoints \/ Len(coordinates) = 0 THEN coordinates
  ELSE Append(SampleLoop(coordinates, targetPoints, 1, targetPoints - 1,
                         << At(coordinates, 0) >>),
              At(coordinates, Len(coordinates) - 1))

intelligentSample(coordinates, targetPoints) ==
  IF Len(coordinates) <= targetPoints THEN coordinates
  ELSE Append(SampleLoop(coordinates, targetPoints, 1, targetPoints - 1,
                         << At(coordinates, 0) >>),
              At(coordinates, Len(coordinates) - 1))

(***************************************************************************)
(* createInterpolatedPath(startCoords, endCoords)                         *)
(***************************************************************************)
InterpolatedPoint(startCoords, endCoords, i) ==
  << startCoords[1] + ((endCoords[1] - startCoords[1]) * i) \div steps,
     startCoords[2] + ((endCoords[2] - startCoords[2]) * i) \div steps >>

\* a path that would begin at the first intermediate point
createInterpolatedPathHeadless(startCoords, endCoords) ==
  [i \in 1..(steps - 1) |-> InterpolatedPoint(startCoords, endCoords, i)]
    \o << endCoords >>

\* a path that would stop one step short of the end point
createInterpolatedPathOpen(startCoords, endCoords) ==
  << startCoords >>
    \o [i \in 1..(steps - 1) |-> InterpolatedPoint(startCoords, endCoords, i)]

createInterpolatedPath(startCoords, endCoords) ==
  << startCoords >>
    \o [i \in 1..(steps - 1) |-> InterpolatedPoint(startCoords, endCoords, i)]
    \o << endCoords >>

(***************************************************************************)
(* extractGpsTrackBetweenPoints: the winding test and the end points      *)
(***************************************************************************)
\* windingRatio = trailDistance / straightDistance;
\* if (windingRatio > 0.5 && windingRatio < 10).  A zero straightDistance
\* gives Infinity or NaN, and neither passes the comparison.
\* a winding test that would let the two bounds themselves pass
WindingAcceptsInclusive(trailDistance, straightDistance) ==
  IF straightDistance = 0 THEN FALSE
  ELSE /\ 2 * trailDistance >= straightDistance
       /\ trailDistance <= 10 * straightDistance

WindingAccepts(trailDistance, straightDistance) ==
  IF straightDistance = 0 THEN FALSE
  ELSE /\ 2 * trailDistance > straightDistance
       /\ trailDistance < 10 * straightDistance

\* if (rawGpsSegment.length > 300) finalPath = intelligentSample(raw, 200)
SampleIfLong(rawGpsSegment) ==
  IF Len(rawGpsSegment) > SampleAbove
  THEN intelligentSample(rawGpsSegment, SampleTo)
  ELSE rawGpsSegment

\* both end points replaced by the targets whatever the file
AdjustEndpointsAlways(v, finalPath, targetStart, targetEnd) ==
  [[finalPath EXCEPT ![1] = targetStart] EXCEPT ![Len(finalPath)] = targetEnd]

\* part_000: finalPath[0] = targetStart; finalPath[length-1] = targetEnd
\* main.js : the recorded end points are kept
AdjustEndpoints(v, finalPath, targetStart, targetEnd) ==
  IF v = "snap"
  THEN [[finalPath EXCEPT ![1] = targetStart] EXCEPT ![Len(finalPath)] = targetEnd]
  ELSE finalPath

\* the points of s in opposite order
Reversed(s) == [k \in 1..Len(s) |-> s[Len(s) + 1 - k]]

\* an extraction that would run from the start index to the end index also
\* when the end index comes first on the track
extractGpsTrackOriented(v, gpxCoords, startIdx, endIdx, targetStart, targetEnd) ==
  LET lo == Min2(startIdx, endIdx)
      hi == Max2(startIdx, endIdx)
      ascending == Slice(gpxCoords, lo, hi + 1)
      rawGpsSegment == IF startIdx > endIdx THEN Reversed(ascending) ELSE ascending
  IN  IF Len(rawGpsSegment) < 2 THEN NoPath
      ELSE LET finalPath == AdjustEndpoints(v, SampleIfLong(rawGpsSegment),
                                            targetStart, targetEnd)
               straightDistance == calculateDistance(targetStart, targetEnd)
               trailDistance == calculateTotalDistance(finalPath)
           IN  IF WindingAccepts(trailDistance, straightDistance)
               THEN SomePath(finalPath)
               ELSE NoPath

extractGpsTrackBetweenPoints(v, gpxCoords, startIdx, endIdx, targetStart, targetEnd) ==
  LET lo == Min2(startIdx, endIdx)
      hi == Max2(startIdx, endIdx)
      rawGpsSegment == Slice(gpxCoords, lo, hi + 1)
  IN  IF Len(rawGpsSegment) < 2 THEN NoPath
      ELSE LET finalPath == AdjustEndpoints(v, SampleIfLong(rawGpsSegment),
                                            targetStart, targetEnd)
               straightDistance == calculateDistance(targetStart, targetEnd)
               trailDistance == calculateTotalDistance(finalPath)
           IN  IF WindingAccepts(trailDistance, straightDistance)
               THEN SomePath(finalPath)
               ELSE NoPath

(***************************************************************************)
(* findNearbyIndices(gpxCoords, targetCoord, maxDistance)                 *)
(***************************************************************************)
\* iterations lo .. hi-1 of the collecting loop
RECURSIVE CollectLoop(_, _, _, _, _, _)
CollectLoop(gpxCoords, targetCoord, maxD, lo, hi, options) ==
  IF hi <= lo THEN options
  ELSE IF hi = lo + 1
       THEN LET distance == calculateDistance(At(gpxCoords, lo), targetCoord)
            IN  IF distance <= maxD
                THEN Append(options, [index |-> lo, distance |-> distance])
                ELSE options
  ELSE LET mid == (lo + hi) \div 2
           first == CollectLoop(gpxCoords, targetCoord, maxD, lo, mid, options)
       IN  IF Done(first)
           THEN CollectLoop(gpxCoords, targetCoord, maxD, mid, hi, first)
           ELSE first

\* options.sort((a, b) => a.distance - b.distance): a stable sort, so equal
\* distances keep their array order.  Each entry is put behind the entries
\* already placed whose distance is not larger.
InsertByDistance(sorted, o) ==
  LET pos == Cardinality({k \in 1..Len(sorted) : sorted[k].distance <= o.distance})
  IN  SubSeq(sorted, 1, pos) \o << o >> \o SubSeq(sorted, pos + 1, Len(sorted))

RECURSIVE SortLoop(_, _, _, _)
SortLoop(options, lo, hi, sorted) ==
  IF hi <= lo THEN sorted
  ELSE IF hi = lo + 1 THEN InsertByDistance(sorted, At(options, lo))
  ELSE LET mid == (lo + hi) \div 2
           first == SortLoop(options, lo, mid, sorted)
       IN  IF Done(first) THEN SortLoop(options, mid, hi, first) ELSE first

\* the collected options left in array order
findNearbyIndicesUnsorted(gpxCoords, targetCoord, maxD) ==
  CollectLoop(gpxCoords, targetCoord, maxD, 0, Len(gpxCoords), << >>)

findNearbyIndices(gpxCoords, targetCoord, maxD) ==
  LET options == CollectLoop(gpxCoords, targetCoord, maxD, 0, Len(gpxCoords), << >>)
  IN  SortLoop(options, 0, Len(options), << >>)

(***************************************************************************)
(* findSegmentByDistance(track, startCoords, endCoords)                   *)
(***************************************************************************)
\* distanceRatio = |segmentDistance - targetDistance| / targetDistance;
\* if (distanceRatio < 0.5).  targetDistance = 0 gives Infinity or NaN.
WithinBudget(segmentDistance, targetDistance) ==
  IF targetDistance = 0 THEN FALSE
  ELSE 2 * Abs(segmentDistance - targetDistance) < targetDistance

\* calculateDistance(startCoords, endCoords) * 111000, in metres
TargetMeters(startCoords, endCoords) ==
  (calculateDistance(startCoords, endCoords) * DegToMeters) \div Scale

\* inner loop, iterations j = lo .. hi-1: the first j with the budget met
\* (the loop returns there), or -1
RECURSIVE FirstJ(_, _, _, _, _)
FirstJ(cumul, targetDistance, i, lo, hi) ==
  IF hi <= lo THEN -1
  ELSE IF hi = lo + 1
       THEN IF WithinBudget(At(cumul, lo) - At(cumul, i), targetDistance)
            THEN lo ELSE -1
  ELSE LET mid == (lo + hi) \div 2
           first == FirstJ(cumul, targetDistance, i, lo, mid)
       IN  IF first >= 0 THEN first
           ELSE FirstJ(cumul, targetDistance, i, mid, hi)

\* outer loop, iterations i = lo .. hi-1: the first pair (i, j), or << -1, -1 >>
\* an outer loop whose inner loop would start one index earlier
RECURSIVE FirstPairNear(_, _, _, _)
FirstPairNear(cumul, targetDistance, lo, hi) ==
  IF hi <= lo THEN << -1, -1 >>
  ELSE IF hi = lo + 1
       THEN LET j == FirstJ(cumul, targetDistance, lo, lo + MinGap - 1, Len(cumul))
            IN  IF j >= 0 THEN << lo, j >> ELSE << -1, -1 >>
  ELSE LET mid == (lo + hi) \div 2
           first == FirstPairNear(cumul, targetDistance, lo, mid)
       IN  IF first[1] >= 0 THEN first
           ELSE FirstPairNear(cumul, targetDistance, mid, hi)

RECURSIVE FirstPair(_, _, _, _)
FirstPair(cumul, targetDistance, lo, hi) ==
  IF hi <= lo THEN << -1, -1 >>
  ELSE IF hi = lo + 1
       THEN LET j == FirstJ(cumul, targetDistance, lo, lo + MinGap, Len(cumul))
            IN  IF j >= 0 THEN << lo, j >> ELSE << -1, -1 >>
  ELSE LET mid == (lo + hi) \div 2
           first == FirstPair(cumul, targetDistance, lo, mid)
       IN  IF first[1] >= 0 THEN first
           ELSE FirstPair(cumul, targetDistance, mid, hi)

findSegmentByDistance(v, track, startCoords, endCoords) ==
  IF ~track.distance.hasCumul \/ Len(track.distance.cumul) # Len(track.points)
  THEN NoPath
  ELSE LET pair == FirstPair(track.distance.cumul,
                             TargetMeters(startCoords, endCoords),
                             0, Len(track.points) - MinGap)
       IN  IF pair[1] < 0 THEN NoPath
           ELSE LET segmentCoords == ToCoords(Slice(track.points, pair[1], pair[2] + 1))
                IN  IF Len(segmentCoords) >= 2
                    THEN SomePath(AdjustEndpoints(v, segmentCoords, startCoords, endCoords))
                    ELSE NoPath

(***************************************************************************)
(* findGpxSegmentForCoordinates, one strategy at a time                   *)
(***************************************************************************)
\* Approach 1 is taken when both nearest points are within maxDistance;
\* its result, a path or null, is then returned as it is.
DirectApplies(gpxCoords, startCoords, endCoords) ==
  LET bestStartIdx == findClosestPointIndex(gpxCoords, startCoords)
      bestEndIdx   == findClosestPointIndex(gpxCoords, endCoords)
  IN  /\ calculateDistance(At(gpxCoords, bestStartIdx), startCoords) <= maxDistance
      /\ calculateDistance(At(gpxCoords, bestEndIdx), endCoords) <= maxDistance

DirectMatch(v, gpxCoords, startCoords, endCoords) ==
  extractGpsTrackBetweenPoints(v, gpxCoords,
                               findClosestPointIndex(gpxCoords, startCoords),
                               findClosestPointIndex(gpxCoords, endCoords),
                               startCoords, endCoords)

\* nested loops that would keep the last of the best-scored combinations
RECURSIVE BestCombinationLast(_, _, _, _, _, _, _)
BestCombinationLast(v, gpxCoords, startCoords, endCoords, pairs, k, best) ==
  IF k > Len(pairs) THEN best
  ELSE LET startPoint == pairs[k][1]
           endPoint   == pairs[k][2]
           path == IF startPoint.index # endPoint.index
                   THEN extractGpsTrackBetweenPoints(v, gpxCoords, startPoint.index,
                                                     endPoint.index, startCoords, endCoords)
                   ELSE NoPath
           score == startPoint.distance + endPoint.distance
       IN  BestCombinationLast(v, gpxCoords, startCoords, endCoords, pairs, k + 1,
                               IF path.some /\ Len(path.path) >= 2 /\ score <= best.score
                               THEN [path |-> path, score |-> score]
                               ELSE best)

\* Approach 2: the nested loops over the (at most 5 x 5) nearby points,
\* flattened; best = [path, score], replaced on a strictly smaller score.
RECURSIVE BestCombination(_, _, _, _, _, _, _)
BestCombination(v, gpxCoords, startCoords, endCoords, pairs, k, best) ==
  IF k > Len(pairs) THEN best
  ELSE LET startPoint == pairs[k][1]
           endPoint   == pairs[k][2]
           path == IF startPoint.index # endPoint.index
                   THEN extractGpsTrackBetweenPoints(v, gpxCoords, startPoint.index,
                                                     endPoint.index, startCoords, endCoords)
                   ELSE NoPath
           score == startPoint.distance + endPoint.distance
       IN  BestCombination(v, gpxCoords, startCoords, endCoords, pairs, k + 1,
                           IF path.some /\ Len(path.path) >= 2 /\ score < best.score
                           THEN [path |-> path, score |-> score]
                           ELSE best)

NearbyPairs(nearbyStartPoints, nearbyEndPoints) ==
  [k \in 1..(Len(nearbyStartPoints) * Len(nearbyEndPoints)) |->
     << nearbyStartPoints[((k - 1) \div Len(nearbyEndPoints)) + 1],
        nearbyEndPoints[((k - 1) % Len(nearbyEndPoints)) + 1] >>]

\* an approach 2 that would look twice as far as approach 1
NearbyMatchWide(v, gpxCoords, startCoords, endCoords) ==
  LET nearbyStartPoints == Slice(findNearbyIndices(gpxCoords, startCoords, 2 * maxDistance),
                                 0, NearbyLimit)
      nearbyEndPoints   == Slice(findNearbyIndices(gpxCoords, endCoords, 2 * maxDistance),
                                 0, NearbyLimit)
  IN  IF Len(nearbyStartPoints) > 0 /\ Len(nearbyEndPoints) > 0
      THEN BestCombination(v, gpxCoords, startCoords, endCoords,
                           NearbyPairs(nearbyStartPoints, nearbyEndPoints), 1,
                           [path |-> NoPath, score |-> MAX_VALUE]).path
      ELSE NoPath

NearbyMatch(v, gpxCoords, startCoords, endCoords) ==
  LET nearbyStartPoints == Slice(findNearbyIndices(gpxCoords, startCoords, maxDistance),
                                 0, NearbyLimit)
      nearbyEndPoints   == Slice(findNearbyIndices(gpxCoords, endCoords, maxDistance),
                                 0, NearbyLimit)
  IN  IF Len(nearbyStartPoints) > 0 /\ Len(nearbyEndPoints) > 0
      THEN BestCombination(v, gpxCoords, startCoords, endCoords,
                           NearbyPairs(nearbyStartPoints, nearbyEndPoints), 1,
                           [path |-> NoPath, score |-> MAX_VALUE]).path
      ELSE NoPath

\* Approach 3: only if (track.distance && track.distance.cumul)
DistanceMatch(v, track, startCoords, endCoords) ==
  IF track.distance.hasCumul
  THEN findSegmentByDistance(v, track, startCoords, endCoords)
  ELSE NoPath

\* the whole function: approach 1 returns whatever it finds, approach 2
\* returns a path it found, approach 3 returns a path or null
findGpxSegmentForCoordinates(v, track, startCoords, endCoords) ==
  LET gpxCoords == ToCoords(track.points)
  IN  IF DirectApplies(gpxCoords, startCoords, endCoords)
      THEN DirectMatch(v, gpxCoords, startCoords, endCoords)
      ELSE LET bestPath == NearbyMatch(v, gpxCoords, startCoords, endCoords)
           IN  IF bestPath.some THEN bestPath
               ELSE DistanceMatch(v, track, startCoords, endCoords)

(***************************************************************************)
(* buildSegmentObject and the report of processSegmentData                *)
(***************************************************************************)
\* (the elevation and highlights look-ups by id are display data, left out)
\* a segment object that would carry the 0-based loop index as its id
buildSegmentObjectZeroBased(rd, index, coords, sCoords, eCoords) ==
  [id              |-> index,
   name            |-> rd.name,
   start_location  |-> rd.start_location,
   finish_location |-> rd.finish_location,
   distance        |-> rd.distance,
   notes           |-> rd.notes,
   coordinates     |-> coords,
   startCoords     |-> sCoords,
   endCoords       |-> eCoords]

buildSegmentObject(rd, index, coords, sCoords, eCoords) ==
  [id              |-> index + 1,
   name            |-> rd.name,
   start_location  |-> rd.start_location,
   finish_location |-> rd.finish_location,
   distance        |-> rd.distance,
   notes           |-> rd.notes,
   coordinates     |-> coords,
   startCoords     |-> sCoords,
   endCoords       |-> eCoords]

StartOf(segment)  == << segment.start_coords.latitude, segment.start_coords.longitude >>
FinishOf(segment) == << segment.finish_coords.latitude, segment.finish_coords.longitude >>

\* routeData.map(... createInterpolatedPath ... buildSegmentObject ...)
InterpolatedSegment(segment, index) ==
  buildSegmentObject(segment, index,
                     createInterpolatedPath(StartOf(segment), FinishOf(segment)),
                     StartOf(segment), FinishOf(segment))

\* if (segmentPath && segmentPath.length >= 2)
UsesGpsPath(p) == p.some /\ Len(p.path) >= 2

\* ((gpxMatchCount / segments.length) * 100).toFixed(1), in tenths of a
\* percent; 0 / 0 prints "NaN"
CoverageText(matchCount, total) ==
  IF total = 0 THEN [nan |-> TRUE, tenths |-> 0]
  ELSE [nan |-> FALSE, tenths |-> RoundDiv(matchCount * 1000, total)]

NoReport == [logged |-> FALSE, total |-> 0, gps |-> 0, interpolated |-> 0,
             coverage |-> [nan |-> TRUE, tenths |-> 0]]

SummaryOf(segs, matchCount, interpCount) ==
  [logged |-> TRUE, total |-> Len(segs), gps |-> matchCount,
   interpolated |-> interpCount, coverage |-> CoverageText(matchCount, Len(segs))]

(***************************************************************************)
(* main.js: tracks are mapped to segments by the start of their name      *)
(***************************************************************************)
\* names are sequences of characters; the empty name stands for a missing one
SEGMENT_ORDER ==
  << <<"0","1">>, <<"0","2">>, <<"0","3">>, <<"0","4">>, <<"0","5">>, <<"0","6">>,
     <<"0","7">>, <<"0","8">>, <<"0","9">>, <<"1","0">>, <<"1","1">>,
     <<"C","W","0","1">>, <<"C","W","0","2">>, <<"C","W","0","3">>,
     <<"C","W","0","5">> >>

LowerChar(c) == IF c = "C" THEN "c" ELSE IF c = "W" THEN "w" ELSE c
toLowerCase(str) == [k \in 1..Len(str) |-> LowerChar(str[k])]

startsWith(str, prefix) ==
  /\ Len(prefix) <= Len(str)
  /\ SubSeq(str, 1, Len(prefix)) = prefix

\* a search that passes over tracks too short to be drawn
RECURSIVE FindTrackIndexWithPoints(_, _, _)
FindTrackIndexWithPoints(tracks, targetSegment, trackIndex) ==
  IF trackIndex >= Len(tracks) THEN -1
  ELSE LET track == At(tracks, trackIndex)
       IN  IF /\ track.name # << >>
              /\ Len(track.points) >= 2
              /\ startsWith(toLowerCase(track.name), toLowerCase(targetSegment))
           THEN trackIndex
           ELSE FindTrackIndexWithPoints(tracks, targetSegment, trackIndex + 1)

\* the inner search loop: the first track whose name starts with the code
RECURSIVE FindTrackIndex(_, _, _)
FindTrackIndex(tracks, targetSegment, trackIndex) ==
  IF trackIndex >= Len(tracks) THEN -1
  ELSE LET track == At(tracks, trackIndex)
       IN  IF /\ track.name # << >>
              /\ startsWith(toLowerCase(track.name), toLowerCase(targetSegment))
           THEN trackIndex
           ELSE FindTrackIndex(tracks, targetSegment, trackIndex + 1)

\* CORRECT_TRACK_ORDER[i]: a track index, or -1 for null and for i >= 15
TrackMapping(tracks, i) ==
  IF i >= Len(SEGMENT_ORDER) THEN -1
  ELSE FindTrackIndex(tracks, At(SEGMENT_ORDER, i), 0)

\* one iteration of the main.js loop: << segment object, "gps" | "interpolated" >>
NamedSegment(tracks, segmentData, i) ==
  LET idx == TrackMapping(tracks, i)
  IN  IF idx >= 0 /\ Len(At(tracks, idx).points) >= 2
      THEN LET trackCoords == ToCoords(At(tracks, idx).points)
           IN  << buildSegmentObject(segmentData, i, trackCoords,
                                     trackCoords[1], trackCoords[Len(trackCoords)]),
                  "gps" >>
      ELSE << InterpolatedSegment(segmentData, i), "interpolated" >>

RECURSIVE NamedLoop(_, _, _, _)
NamedLoop(tracks, rd, i, acc) ==
  IF i >= Len(rd) THEN acc
  ELSE LET built == NamedSegment(tracks, At(rd, i), i)
       IN  NamedLoop(tracks, rd, i + 1,
                     [segments   |-> Append(acc.segments, built[1]),
                      provenance |-> Append(acc.provenance, built[2]),
                      gps        |-> acc.gps + (IF built[2] = "gps" THEN 1 ELSE 0),
                      interpolated |->
                        acc.interpolated + (IF built[2] = "gps" THEN 0 ELSE 1)])

(***************************************************************************)
(* Inputs: GPX files and route.json lists                                 *)
(***************************************************************************)
MaxShort == 3       \* longest track built from arbitrary points
MaxTrackLen == 12   \* longest evenly spaced track given to the matcher
MaxSpecs == 2       \* longest route.json list

PointAt(lat) == [lat |-> lat, lon |-> 0]
PointsOf(lats) == [k \in 1..Len(lats) |-> PointAt(lats[k])]

\* an evenly spaced track of n points from latitude a, d apart
LineLats(n, a, d) == [k \in 1..n |-> a + d * (k - 1)]

\* the track object the GPX parser produces: name, points, distance
MkTrack(name, lats, hasCumul) ==
  LET cum == computeCumulativeMeters(ToCoords(PointsOf(lats)))
  IN  [name   |-> name,
       points |-> PointsOf(lats),
       distance |-> [total    |-> IF cum = << >> THEN 0 ELSE cum[Len(cum)],
                     cumul    |-> IF hasCumul THEN cum ELSE << >>,
                     hasCumul |-> hasCumul]]

\* a track object whose cumulative distances are one fewer than its points
MkTrackCut(name, lats) ==
  LET whole == MkTrack(name, lats, TRUE)
  IN  [whole EXCEPT !.distance.cumul = SubSeq(@, 1, Len(@) - 1)]

ShortLatValues == {0, 10, 300}
ShortLats == UNION {[1..n -> ShortLatValues] : n \in 0..MaxShort}

\* tracks that put a winding ratio on or across each bound of the test
BoundaryLats == { <<0, 55, 10>>, <<0, 80, 10>>, <<27, 33>>, <<15, 45>>, <<0, 5, 10>> }

LongLats == {LineLats(n, 0, d) : n \in (MinGap + 1)..MaxTrackLen, d \in {1, 10}}

\* a track just long enough for the coarse pass to skip every other point.
\* It passes through latitudes 0 and 10 at two odd indices beyond the
\* refinement window of index 0, which is as near as the point between them,
\* later through latitude 70 twice, at an odd and then at an even index, and
\* through latitude 45 often enough for a target to have six points nearby.
DenseLen == 2 * CoarseDivisor
DenseLats ==
  [k \in 1..DenseLen |->
     IF k - 1 = 2 * MinRadius + 1 THEN 0
     ELSE IF k - 1 = 2 * MinRadius + 3 THEN 10
     ELSE IF k - 1 \in {0, 2 * MinRadius + 2, 18 * MinRadius, 18 * MinRadius + 2}
          THEN 45
     ELSE IF k - 1 \in {10 * MinRadius + 1, 14 * MinRadius} THEN 70
     ELSE 100]

\* a track recorded while standing still: more than SampleAbove points
\* between its first and its last
StallLats ==
  [k \in 1..(SampleAbove + 2) |->
     IF k = 1 THEN 0 ELSE IF k = SampleAbove + 2 THEN 10 ELSE 4]

TrackNames == { << >>, <<"0","1">>, <<"0","2"," ","b">>, <<"c","w","0","1">>, <<"x">> }

SingleTrackFiles ==
  {<< MkTrack(<<"0","1">>, lats, TRUE) >> : lats \in ShortLats \cup BoundaryLats \cup LongLats}
    \cup {<< MkTrack(<<"0","1">>, lats, FALSE) >> : lats \in LongLats \cup {DenseLats}}
    \cup {<< MkTrack(<<"0","1">>, StallLats, TRUE) >>}
    \cup {<< MkTrackCut(<<"0","1">>, LineLats(MinGap + 1, 40, 1)) >>}
    \cup {<< MkTrack(nm, <<0, 10>>, TRUE) >> : nm \in TrackNames}

TwoTrackFiles ==
  {<< MkTrack(n1, l1, TRUE), MkTrack(n2, l2, TRUE) >> :
     n1 \in {<< >>, <<"0","1">>}, n2 \in {<<"0","1">>, <<"0","2"," ","b">>},
     l1 \in {<< >>, <<0, 10>>}, l2 \in {<< >>, <<0>>, <<10, 300, 0>>}}

GpxFiles ==
  {[fetched |-> FALSE, tracks |-> << >>], [fetched |-> TRUE, tracks |-> << >>]}
    \cup {[fetched |-> TRUE, tracks |-> t] : t \in SingleTrackFiles \cup TwoTrackFiles}

\* approximate end points of the segments (whole degrees)
TargetPairs ==
  << << <<0, 0>>, <<10, 0>> >>,     << <<10, 0>>, <<0, 0>> >>,
     << <<0, 0>>, <<0, 0>> >>,      << <<0, 0>>, <<60, 0>> >>,
     << <<-50, 0>>, <<-40, 0>> >>,  << <<-60, 0>>, <<-40, 0>> >>,
     << <<-50, 0>>, <<10, 0>> >>,   << <<0, 0>>, <<0, 30>> >>,
     << <<0, 0>>, <<40, 30>> >> >>

SpecTags == << "A", "B", "C", "D" >>

MkSpec(tag, pair) ==
  [name            |-> tag,
   start_location  |-> << tag, "trailhead" >>,
   finish_location |-> << tag, "finish" >>,
   distance        |-> << tag, "miles" >>,
   notes           |-> << tag, "notes" >>,
   start_coords    |-> [latitude |-> pair[1][1], longitude |-> pair[1][2]],
   finish_coords   |-> [latitude |-> pair[2][1], longitude |-> pair[2][2]]]

\* n consecutive entries of the list of target pairs, from the a-th on
RouteList(a, n) ==
  [k \in 1..n |-> MkSpec(SpecTags[k], TargetPairs[((a + k - 2) % Len(TargetPairs)) + 1])]

RouteDatas == {RouteList(a, n) : a \in 1..Len(TargetPairs), n \in 0..MaxSpecs}

\* a route.json with more entries than SEGMENT_ORDER has codes, as the
\* trail's own list has; the named-track variant is also called with it
MaxNamedSpecs == 16   \* longest list given to the named-track variant
FullRoute(n) ==
  [k \in 1..n |-> MkSpec(ToString(k), TargetPairs[((k - 1) % Len(TargetPairs)) + 1])]
FullRouteDatas == {FullRoute(MaxNamedSpecs)}

(***************************************************************************)
(* State                                                                   *)
(***************************************************************************)
VARIABLES
  variant,                \* "snap" (part_000) or "preserve" (main.js)
  trailGpxParser,         \* [present, tracks]; present = FALSE is null
  gpxTrailPoints,         \* coordinates of the first track
  coloradoTrailSegments,  \* the resolved segments
  pc,                     \* position of the page's script
  caller,                 \* who called the matcher: "process" or "fallback"
  routeData,              \* argument of processSegmentData
  i,                      \* loop index of processSegmentData
  segments,               \* let segments = []
  gpxMatchCount,          \* let gpxMatchCount = 0
  interpolatedCount,      \* let interpolatedCount = 0
  report,                 \* the summary written to the console
  startCoords, endCoords, \* targets of the current matcher call
  segmentPath,            \* what the matcher returned
  tried,                  \* history: strategies evaluated in this call
  provenance,             \* history: how each output segment was built
  sampler,                \* a call of intelligentSample on its own
  runs,                   \* history: completed calls of processSegmentData
  firstRun,               \* history: the segments the first call produced
  isAnimating,            \* let isAnimating = false
  currentSegmentIndex,    \* let currentSegmentIndex = 0
  routeLines,             \* the polylines on the map, let routeLines = []
  animationTimeout,       \* id of the last 800 ms timer; 0 is undefined
  timers,                 \* the pending setTimeout callbacks: [id, callback]
  animateDisabled,        \* the `disabled' property of the animate button
  completionShown,        \* a completion card is in the side panel
  afterReset              \* history: an animation was reset and none started since

vars == << variant, trailGpxParser, gpxTrailPoints, coloradoTrailSegments, pc,
           caller, routeData, i, segments, gpxMatchCount, interpolatedCount,
           report, startCoords, endCoords, segmentPath, tried, provenance,
           sampler, runs, firstRun, isAnimating, currentSegmentIndex, routeLines,
           animationTimeout, timers, animateDisabled, completionShown,
           afterReset >>

\* the state of the route animation
animVars == << isAnimating, currentSegmentIndex, routeLines, animationTimeout,
               timers, animateDisabled, completionShown, afterReset >>

\* the state of loading and matching
loadVars == << variant, trailGpxParser, gpxTrailPoints, coloradoTrailSegments, pc,
               caller, routeData, i, segments, gpxMatchCount, interpolatedCount,
               report, startCoords, endCoords, segmentPath, tried, provenance,
               sampler, runs, firstRun >>

\* the animation globals as the script declares them, nothing scheduled
AnimIdle ==
  /\ isAnimating = FALSE
  /\ currentSegmentIndex = 0
  /\ routeLines = << >>
  /\ animationTimeout = 0
  /\ timers = {}
  /\ animateDisabled = FALSE
  /\ completionShown = FALSE
  /\ afterReset = FALSE

NullParser == [present |-> FALSE, tracks |-> << >>]

\* no call of intelligentSample on its own is in progress
IdleSampler == [coordinates |-> << >>, targetPoints |-> 0,
                returned |-> TRUE, result |-> << >>]

Init ==
  /\ variant \in {"snap", "preserve"}
  /\ trailGpxParser = NullParser
  /\ gpxTrailPoints = << >>
  /\ coloradoTrailSegments = << >>
  /\ pc = "boot"
  /\ caller = "none"
  /\ routeData = << >>
  /\ i = 0
  /\ segments = << >>
  /\ gpxMatchCount = 0
  /\ interpolatedCount = 0
  /\ report = NoReport
  /\ startCoords = << 0, 0 >>
  /\ endCoords = << 0, 0 >>
  /\ segmentPath = NoPath
  /\ tried = << >>
  /\ provenance = << >>
  /\ sampler = IdleSampler
  /\ runs = 0
  /\ firstRun = << >>
  /\ AnimIdle

(***************************************************************************)
(* loadGpxData                                                             *)
(***************************************************************************)
\* part_000: a failed fetch or an empty track list ends in the catch block,
\* which empties gpxTrailPoints.  main.js: an empty track list leaves it.
PointsAfterLoad(v, g, old) ==
  IF ~g.fetched THEN << >>
  ELSE IF Len(g.tracks) > 0 THEN ToCoords(At(g.tracks, 0).points)
  ELSE IF v = "snap" THEN << >> ELSE old

LoadGpxData ==
  /\ pc = "boot"
  /\ \E g \in GpxFiles :
        /\ trailGpxParser' = IF g.fetched THEN [present |-> TRUE, tracks |-> g.tracks]
                                          ELSE trailGpxParser
        /\ gpxTrailPoints' = PointsAfterLoad(variant, g, gpxTrailPoints)
  /\ pc' = "loaded"
  /\ UNCHANGED << animVars, runs, firstRun, sampler, variant, coloradoTrailSegments, caller, routeData, i, segments,
                  gpxMatchCount, interpolatedCount, report, startCoords, endCoords,
                  segmentPath, tried, provenance >>

(***************************************************************************)
(* processSegmentData                                                      *)
(***************************************************************************)
\* part_000: if (!trailGpxParser || !gpxTrailPoints || gpxTrailPoints.length === 0)
\* main.js : if (!trailGpxParser)
NoGpxData(v, parser, points) ==
  IF v = "snap" THEN ~parser.present \/ Len(points) = 0
  ELSE ~parser.present

\* the list processSegmentData is called with: any list on the first call,
\* the same list on a further call
Arguments == IF runs = 0 THEN RouteDatas ELSE {routeData}
NamedArguments == IF runs = 0 THEN RouteDatas \cup FullRouteDatas ELSE {routeData}

\* no GPX data: every segment is interpolated, nothing is counted or logged
ProcessWithoutGpx ==
  /\ pc \in {"loaded", "again"}
  /\ NoGpxData(variant, trailGpxParser, gpxTrailPoints)
  /\ \E rd \in Arguments :
        /\ routeData' = rd
        /\ coloradoTrailSegments' = [k \in 1..Len(rd) |-> InterpolatedSegment(rd[k], k - 1)]
        /\ provenance' = [k \in 1..Len(rd) |-> "interpolated"]
  /\ pc' = "done"
  /\ UNCHANGED << animVars, runs, firstRun, sampler, variant, trailGpxParser, gpxTrailPoints, caller, i, segments,
                  gpxMatchCount, interpolatedCount, report, startCoords, endCoords,
                  segmentPath, tried >>

\* part_000 line 132 reads routeData[0].name: a TypeError on an empty list
ProcessThrows ==
  /\ pc \in {"loaded", "again"}
  /\ variant = "snap"
  /\ ~NoGpxData(variant, trailGpxParser, gpxTrailPoints)
  /\ << >> \in Arguments
  /\ routeData' = << >>
  /\ pc' = "error"
  /\ UNCHANGED << animVars, runs, firstRun, sampler, variant, trailGpxParser, gpxTrailPoints, coloradoTrailSegments,
                  caller, i, segments, gpxMatchCount, interpolatedCount, report,
                  startCoords, endCoords, segmentPath, tried, provenance >>

\* a loop start that keeps the segments of an earlier call in the list
ProcessBeginAppending ==
  /\ pc \in {"loaded", "again"}
  /\ variant = "snap"
  /\ ~NoGpxData(variant, trailGpxParser, gpxTrailPoints)
  /\ \E rd \in Arguments :
        /\ Len(rd) > 0
        /\ routeData' = rd
        /\ startCoords' = StartOf(At(rd, 0))
        /\ endCoords' = FinishOf(At(rd, 0))
  /\ i' = 0
  /\ segments' = segments
  /\ provenance' = provenance
  /\ gpxMatchCount' = 0
  /\ interpolatedCount' = 0
  /\ tried' = << >>
  /\ caller' = "process"
  /\ pc' = "direct"
  /\ UNCHANGED << animVars, runs, firstRun, sampler, variant, trailGpxParser, gpxTrailPoints, coloradoTrailSegments,
                  report, segmentPath >>

\* part_000: the loop starts and calls the matcher for routeData[0]
ProcessBegin ==
  /\ pc \in {"loaded", "again"}
  /\ variant = "snap"
  /\ ~NoGpxData(variant, trailGpxParser, gpxTrailPoints)
  /\ \E rd \in Arguments :
        /\ Len(rd) > 0
        /\ routeData' = rd
        /\ startCoords' = StartOf(At(rd, 0))
        /\ endCoords' = FinishOf(At(rd, 0))
  /\ i' = 0
  /\ segments' = << >>
  /\ provenance' = << >>
  /\ gpxMatchCount' = 0
  /\ interpolatedCount' = 0
  /\ tried' = << >>
  /\ caller' = "process"
  /\ pc' = "direct"
  /\ UNCHANGED << animVars, runs, firstRun, sampler, variant, trailGpxParser, gpxTrailPoints, coloradoTrailSegments,
                  report, segmentPath >>

\* main.js: the whole function when a parser object exists
ProcessNamed ==
  /\ pc \in {"loaded", "again"}
  /\ variant = "preserve"
  /\ ~NoGpxData(variant, trailGpxParser, gpxTrailPoints)
  /\ \E rd \in NamedArguments :
        LET out == NamedLoop(trailGpxParser.tracks, rd, 0,
                             [segments |-> << >>, provenance |-> << >>,
                              gps |-> 0, interpolated |-> 0])
        IN  /\ routeData' = rd
            /\ i' = Len(rd)
            /\ segments' = out.segments
            /\ provenance' = out.provenance
            /\ gpxMatchCount' = out.gps
            /\ interpolatedCount' = out.interpolated
            /\ report' = SummaryOf(out.segments, out.gps, out.interpolated)
            /\ coloradoTrailSegments' = out.segments
  /\ pc' = "done"
  /\ UNCHANGED << animVars, runs, firstRun, sampler, variant, trailGpxParser, gpxTrailPoints, caller, startCoords,
                  endCoords, segmentPath, tried >>

(***************************************************************************)
(* findGpxSegmentForCoordinates                                            *)
(***************************************************************************)
\* main.js line 359: the matcher called on the main track, which lines
\* 327-330 require to exist and to have points
MatchCall ==
  /\ pc = "loaded"
  /\ variant = "preserve"
  /\ trailGpxParser.present
  /\ Len(trailGpxParser.tracks) > 0
  /\ Len(At(trailGpxParser.tracks, 0).points) > 0
  /\ \E k \in 1..Len(TargetPairs) :
        /\ startCoords' = TargetPairs[k][1]
        /\ endCoords' = TargetPairs[k][2]
  /\ tried' = << >>
  /\ caller' = "fallback"
  /\ pc' = "direct"
  /\ UNCHANGED << animVars, runs, firstRun, sampler, variant, trailGpxParser, gpxTrailPoints, coloradoTrailSegments,
                  routeData, i, segments, gpxMatchCount, interpolatedCount, report,
                  segmentPath, provenance >>

\* const gpxCoords = allPoints.map(p => [p.lat, p.lon]) of the first track
GpxCoords == ToCoords(At(trailGpxParser.tracks, 0).points)

\* history entry of approach 1: "none" when the tolerance check fails,
\* "short" for a candidate of fewer than 2 points, otherwise the verdict of
\* the winding test
DirectOutcome(v, gpxCoords, s, e) ==
  IF ~DirectApplies(gpxCoords, s, e) THEN "none"
  ELSE IF DirectMatch(v, gpxCoords, s, e).some THEN "accepted"
  ELSE IF findClosestPointIndex(gpxCoords, s) = findClosestPointIndex(gpxCoords, e)
       THEN "short"
  ELSE "rejected"

\* a matcher that would go on to approach 2 whatever approach 1 found
AfterDirectFallsThrough(applies) == "nearby"

\* if (startDist <= maxDistance && endDist <= maxDistance) return extract...(...)
AfterDirect(applies) == IF applies THEN "return" ELSE "nearby"

\* an approach 1 that would cut its path out of the coordinate list
\* (splice instead of slice)
DirectSplicing ==
  /\ pc = "direct"
  /\ tried' = << [strategy |-> 1,
                  outcome |-> DirectOutcome(variant, GpxCoords, startCoords, endCoords)] >>
  /\ pc' = AfterDirect(DirectApplies(GpxCoords, startCoords, endCoords))
  /\ segmentPath' = IF DirectApplies(GpxCoords, startCoords, endCoords)
                    THEN DirectMatch(variant, GpxCoords, startCoords, endCoords)
                    ELSE NoPath
  /\ gpxTrailPoints' = IF DirectApplies(GpxCoords, startCoords, endCoords)
                       THEN SubSeq(gpxTrailPoints, 1,
                                   Len(gpxTrailPoints) - Len(segmentPath'.path))
                       ELSE gpxTrailPoints
  /\ UNCHANGED << animVars, runs, firstRun, sampler, variant, trailGpxParser, coloradoTrailSegments,
                  caller, routeData, i, segments, gpxMatchCount, interpolatedCount,
                  report, startCoords, endCoords, provenance >>

Direct ==
  /\ pc = "direct"
  /\ tried' = << [strategy |-> 1,
                  outcome |-> DirectOutcome(variant, GpxCoords, startCoords, endCoords)] >>
  /\ pc' = AfterDirect(DirectApplies(GpxCoords, startCoords, endCoords))
  /\ segmentPath' = IF DirectApplies(GpxCoords, startCoords, endCoords)
                    THEN DirectMatch(variant, GpxCoords, startCoords, endCoords)
                    ELSE NoPath
  /\ UNCHANGED << animVars, runs, firstRun, sampler, variant, trailGpxParser, gpxTrailPoints, coloradoTrailSegments,
                  caller, routeData, i, segments, gpxMatchCount, interpolatedCount,
                  report, startCoords, endCoords, provenance >>

\* if (bestPath) return bestPath
AfterNearby(found) == IF found THEN "return" ELSE "budget"

Nearby ==
  /\ pc = "nearby"
  /\ LET bestPath == NearbyMatch(variant, GpxCoords, startCoords, endCoords)
     IN  /\ tried' = Append(tried, [strategy |-> 2,
                                    outcome |-> IF bestPath.some THEN "accepted"
                                                                 ELSE "none"])
         /\ pc' = AfterNearby(bestPath.some)
         /\ segmentPath' = bestPath
  /\ UNCHANGED << animVars, runs, firstRun, sampler, variant, trailGpxParser, gpxTrailPoints, coloradoTrailSegments,
                  caller, routeData, i, segments, gpxMatchCount, interpolatedCount,
                  report, startCoords, endCoords, provenance >>

\* const track = trailGpxParser.tracks[0]; a path or null is returned
Budget ==
  /\ pc = "budget"
  /\ LET gpsPath == DistanceMatch(variant, At(trailGpxParser.tracks, 0),
                                  startCoords, endCoords)
     IN  /\ tried' = Append(tried, [strategy |-> 3,
                                    outcome |-> IF gpsPath.some THEN "accepted"
                                                                ELSE "none"])
         /\ segmentPath' = gpsPath
  /\ pc' = "return"
  /\ UNCHANGED << animVars, runs, firstRun, sampler, variant, trailGpxParser, gpxTrailPoints, coloradoTrailSegments,
                  caller, routeData, i, segments, gpxMatchCount, interpolatedCount,
                  report, startCoords, endCoords, provenance >>

\* the fallback caller takes the result as it is
ReturnToFallback ==
  /\ pc = "return"
  /\ caller = "fallback"
  /\ pc' = "returned"
  /\ UNCHANGED << animVars, runs, firstRun, sampler, variant, trailGpxParser, gpxTrailPoints, coloradoTrailSegments,
                  caller, routeData, i, segments, gpxMatchCount, interpolatedCount,
                  report, startCoords, endCoords, segmentPath, tried, provenance >>

(***************************************************************************)
(* processSegmentData (part_000): the rest of one loop iteration           *)
(***************************************************************************)
BuiltSegment(segmentData, index, p, s, e) ==
  IF UsesGpsPath(p)
  THEN buildSegmentObject(segmentData, index, p.path, p.path[1], p.path[Len(p.path)])
  ELSE buildSegmentObject(segmentData, index, createInterpolatedPath(s, e), s, e)

\* a counter that would count every segment as GPS-matched
MatchCountAlways(count, p) == count + 1

\* gpxMatchCount++ in the one branch, interpolatedCount++ in the other
MatchCountAfter(count, p) == IF UsesGpsPath(p) THEN count + 1 ELSE count
InterpolatedCountAfter(count, p) == IF UsesGpsPath(p) THEN count ELSE count + 1

\* segments.push(...), and the next iteration calls the matcher again
BuildAndContinue ==
  /\ pc = "return"
  /\ caller = "process"
  /\ i + 1 < Len(routeData)
  /\ segments' = Append(segments, BuiltSegment(At(routeData, i), i, segmentPath,
                                               startCoords, endCoords))
  /\ provenance' = Append(provenance, IF UsesGpsPath(segmentPath) THEN "gps"
                                                                  ELSE "interpolated")
  /\ gpxMatchCount' = MatchCountAfter(gpxMatchCount, segmentPath)
  /\ interpolatedCount' = InterpolatedCountAfter(interpolatedCount, segmentPath)
  /\ i' = i + 1
  /\ startCoords' = StartOf(At(routeData, i + 1))
  /\ endCoords' = FinishOf(At(routeData, i + 1))
  /\ tried' = << >>
  /\ pc' = "direct"
  /\ UNCHANGED << animVars, runs, firstRun, sampler, variant, trailGpxParser, gpxTrailPoints, coloradoTrailSegments,
                  caller, routeData, report, segmentPath >>

\* the last iteration, the summary and coloradoTrailSegments = segments
BuildAndFinish ==
  /\ pc = "return"
  /\ caller = "process"
  /\ i + 1 >= Len(routeData)
  /\ LET segs == Append(segments, BuiltSegment(At(routeData, i), i, segmentPath,
                                               startCoords, endCoords))
         gps  == MatchCountAfter(gpxMatchCount, segmentPath)
         itp  == InterpolatedCountAfter(interpolatedCount, segmentPath)
     IN  /\ segments' = segs
         /\ gpxMatchCount' = gps
         /\ interpolatedCount' = itp
         /\ report' = SummaryOf(segs, gps, itp)
         /\ coloradoTrailSegments' = segs
  /\ provenance' = Append(provenance, IF UsesGpsPath(segmentPath) THEN "gps"
                                                                  ELSE "interpolated")
  /\ i' = i + 1
  /\ pc' = "done"
  /\ UNCHANGED << animVars, runs, firstRun, sampler, variant, trailGpxParser, gpxTrailPoints, caller, routeData,
                  startCoords, endCoords, segmentPath, tried >>

Next ==
  \/ LoadGpxData
  \/ ProcessWithoutGpx
  \/ ProcessThrows
  \/ ProcessBegin
  \/ ProcessNamed
  \/ MatchCall
  \/ Direct
  \/ Nearby
  \/ Budget
  \/ ReturnToFallback
  \/ BuildAndContinue
  \/ BuildAndFinish

Spec == Init /\ [][Next]_vars

\* processSegmentData is called once more with the list it was given, the
\* GPS data unchanged; what the first call produced is remembered
ProcessAgain ==
  /\ pc = "done"
  /\ runs = 0
  /\ runs' = runs + 1
  /\ firstRun' = coloradoTrailSegments
  /\ pc' = "again"
  /\ UNCHANGED << animVars, sampler, variant, trailGpxParser, gpxTrailPoints,
                  coloradoTrailSegments,
                  caller, routeData, i, segments, gpxMatchCount, interpolatedCount,
                  report, startCoords, endCoords, segmentPath, tried, provenance >>

NextTwice ==
  \/ Next
  \/ ProcessAgain

SpecTwice == Init /\ [][NextTwice]_vars

(***************************************************************************)
(* intelligentSample called on its own                                    *)
(***************************************************************************)
MaxSampleLen == 9      \* longest array given to intelligentSample
MaxSampleTarget == 6   \* largest targetPoints

SampleInputs == {[k \in 1..n |-> << k, 0 >>] : n \in 0..MaxSampleLen}

InitSample ==
  /\ variant = "snap"
  /\ trailGpxParser = NullParser
  /\ gpxTrailPoints = << >>
  /\ coloradoTrailSegments = << >>
  /\ pc = "sample"
  /\ caller = "none"
  /\ routeData = << >>
  /\ i = 0
  /\ segments = << >>
  /\ gpxMatchCount = 0
  /\ interpolatedCount = 0
  /\ report = NoReport
  /\ startCoords = << 0, 0 >>
  /\ endCoords = << 0, 0 >>
  /\ segmentPath = NoPath
  /\ tried = << >>
  /\ provenance = << >>
  /\ runs = 0
  /\ firstRun = << >>
  /\ AnimIdle
  /\ \E c \in SampleInputs, k \in 0..MaxSampleTarget :
        sampler = [coordinates |-> c, targetPoints |-> k,
                   returned |-> FALSE, result |-> << >>]

SampleCall ==
  /\ pc = "sample"
  /\ ~sampler.returned
  /\ sampler' = [sampler EXCEPT
                   !.returned = TRUE,
                   !.result = intelligentSample(sampler.coordinates,
                                                sampler.targetPoints)]
  /\ UNCHANGED << animVars, runs, firstRun, variant, trailGpxParser, gpxTrailPoints,
                  coloradoTrailSegments, pc, caller, routeData, i, segments, gpxMatchCount,
                  interpolatedCount, report, startCoords, endCoords, segmentPath,
                  tried, provenance >>

NextSample == SampleCall

SpecSample == InitSample /\ [][NextSample]_vars

(***************************************************************************)
(* The route animation: startAnimation, animateNextSegment,                *)
(* animatePolyline, resetAnimation.  The code is the same in both files.   *)
(* A timer is a pending callback; any pending callback may be the next to  *)
(* run.  Timer ids are never reused by a browser: a new timer gets an id   *)
(* that no pending timer has and that animationTimeout does not hold.      *)
(***************************************************************************)
MaxAnimSegments == 3   \* longest segment list animated
MaxPending == 2        \* most callbacks pending when animation is started

AnimRouteDatas ==
  {RouteList(a, n) : a \in {1, 3}, n \in 0..MaxAnimSegments}

\* the page after loadTrailData has run without GPX data
InitAnim ==
  /\ variant \in {"snap", "preserve"}
  /\ trailGpxParser = NullParser
  /\ gpxTrailPoints = << >>
  /\ pc = "done"
  /\ caller = "none"
  /\ \E rd \in AnimRouteDatas :
        /\ routeData = rd
        /\ coloradoTrailSegments = [k \in 1..Len(rd) |-> InterpolatedSegment(rd[k], k - 1)]
        /\ provenance = [k \in 1..Len(rd) |-> "interpolated"]
  /\ i = 0
  /\ segments = << >>
  /\ gpxMatchCount = 0
  /\ interpolatedCount = 0
  /\ report = NoReport
  /\ startCoords = << 0, 0 >>
  /\ endCoords = << 0, 0 >>
  /\ segmentPath = NoPath
  /\ tried = << >>
  /\ sampler = IdleSampler
  /\ runs = 0
  /\ firstRun = << >>
  /\ AnimIdle

\* setTimeout returns an id no other timer has
NewTimerId ==
  CHOOSE id \in 1..(Cardinality(timers) + 2) :
    /\ id # animationTimeout
    /\ \A t \in timers : t.id # id

\* colors[index % colors.length]
getSegmentColor(index) == index % NumColors

\* L.polyline(segment.coordinates, {color: getSegmentColor(currentSegmentIndex)})
Polyline(index) ==
  [coordinates |-> At(coloradoTrailSegments, index).coordinates,
   color       |-> getSegmentColor(index)]

\* the body of animateNextSegment, run with the timers left pending
animateNextSegment(pending) ==
  IF currentSegmentIndex >= Len(coloradoTrailSegments)
  THEN /\ isAnimating' = FALSE
       /\ animateDisabled' = FALSE
       /\ completionShown' = TRUE
       /\ routeLines' = routeLines
       /\ timers' = pending
  ELSE /\ routeLines' = Append(routeLines, Polyline(currentSegmentIndex))
       /\ timers' = pending \cup {[id |-> NewTimerId, callback |-> "advance"]}
       /\ UNCHANGED << isAnimating, animateDisabled, completionShown >>

\* a startAnimation that would not look at isAnimating
startAnimationAnyTime ==
  IF Len(coloradoTrailSegments) = 0
  THEN UNCHANGED vars
  ELSE /\ Cardinality(timers) < MaxPending
       /\ isAnimating' = TRUE
       /\ currentSegmentIndex' = 0
       /\ animateDisabled' = TRUE
       /\ routeLines' = << Polyline(0) >>
       /\ timers' = timers \cup {[id |-> NewTimerId, callback |-> "advance"]}
       /\ afterReset' = FALSE
       /\ UNCHANGED << animationTimeout, completionShown, loadVars >>

\* startAnimation: nothing while an animation runs or no segment is loaded;
\* otherwise the map is cleared and animateNextSegment() draws segment 0
startAnimation ==
  IF isAnimating \/ Len(coloradoTrailSegments) = 0
  THEN UNCHANGED vars
  ELSE /\ Cardinality(timers) < MaxPending
       /\ isAnimating' = TRUE
       /\ currentSegmentIndex' = 0
       /\ animateDisabled' = TRUE
       /\ routeLines' = << Polyline(0) >>
       /\ timers' = timers \cup {[id |-> NewTimerId, callback |-> "advance"]}
       /\ afterReset' = FALSE
       /\ UNCHANGED << animationTimeout, completionShown, loadVars >>

\* the 2000 ms callback of animatePolyline:
\* currentSegmentIndex++; animationTimeout = setTimeout(animateNextSegment, 800)
SegmentDrawn ==
  \E t \in timers :
    /\ t.callback = "advance"
    /\ currentSegmentIndex' = currentSegmentIndex + 1
    /\ animationTimeout' = NewTimerId
    /\ timers' = (timers \ {t}) \cup {[id |-> NewTimerId, callback |-> "next"]}
    /\ UNCHANGED << isAnimating, routeLines, animateDisabled, completionShown,
                    afterReset, loadVars >>

\* the 800 ms timer runs animateNextSegment
NextSegmentDue ==
  \E t \in timers :
    /\ t.callback = "next"
    /\ animateNextSegment(timers \ {t})
    /\ UNCHANGED << currentSegmentIndex, animationTimeout, afterReset, loadVars >>

\* resetAnimation: clearTimeout reaches the timer animationTimeout names, if
\* it is still pending, and no other
resetAnimation ==
  /\ isAnimating' = FALSE
  /\ currentSegmentIndex' = 0
  /\ timers' = {t \in timers : t.id # animationTimeout}
  /\ routeLines' = << >>
  /\ animateDisabled' = FALSE
  /\ completionShown' = FALSE
  /\ afterReset' = (isAnimating \/ afterReset)
  /\ UNCHANGED << animationTimeout, loadVars >>

NextAnim ==
  \/ startAnimation
  \/ SegmentDrawn
  \/ NextSegmentDue
  \/ resetAnimation

SpecAnim == InitAnim /\ [][NextAnim]_vars

\* the animation left to itself: the reset button is not used, and a
\* pending timer runs in the end
NextAnimRun ==
  \/ startAnimation
  \/ SegmentDrawn
  \/ NextSegmentDue

SpecAnimRun ==
  /\ InitAnim
  /\ [][NextAnimRun]_vars
  /\ WF_vars(SegmentDrawn)
  /\ WF_vars(NextSegmentDue)

(***************************************************************************)
(* Properties of findGpxSegmentForCoordinates                             *)
(***************************************************************************)
\* the matcher has returned to its caller
MatcherReturned == pc = "return"

\* C1: when the candidate of approach 1 is rejected by the winding test, the
\* matcher goes on to approach 2, and reports no match only after approach 3
\* has been evaluated as well.
C1_RejectedDirectFallsThrough ==
  (MatcherReturned /\ Len(tried) >= 1 /\ tried[1].outcome = "rejected")
    => /\ Len(tried) >= 2
       /\ ~segmentPath.some => Len(tried) = 3

\* C2: every path the matcher returns has at least 2 points and a winding
\* ratio (length of the path over the straight distance between the two
\* targets) strictly between 0.5 and 10, whichever approach produced it.
C2_ReturnedPathPassesWindingTest ==
  (MatcherReturned /\ segmentPath.some)
    => LET trail    == calculateTotalDistance(segmentPath.path)
           straight == calculateDistance(startCoords, endCoords)
       IN  /\ Len(segmentPath.path) >= 2
           /\ straight > 0
           /\ 2 * trail > straight
           /\ trail < 10 * straight

\* C3: the approaches are evaluated in the order 1, 2, 3, a later one only
\* after every earlier one produced no accepted candidate, and none after a
\* candidate has been accepted.
C3_StrictPriorityOrder ==
  /\ Len(tried) <= 3
  /\ \A k \in 1..Len(tried) : tried[k].strategy = k
  /\ \A k \in 1..(Len(tried) - 1) : tried[k].outcome # "accepted"

\* approach 2 accepted a candidate after approach 1 found none
C3_NearbyAccepted ==
  /\ MatcherReturned
  /\ Len(tried) = 2
  /\ tried[2].outcome = "accepted"
  /\ segmentPath.some

(***************************************************************************)
(* Properties of processSegmentData without GPS data                      *)
(***************************************************************************)
\* the k-th output is a straight line of steps + 1 points between the
\* targets of the k-th input, and was built by interpolation
IsInterpolated(k) ==
  LET seg == coloradoTrailSegments[k]
  IN  /\ provenance[k] = "interpolated"
      /\ Len(seg.coordinates) = steps + 1
      /\ seg.coordinates[1] = StartOf(routeData[k])
      /\ seg.coordinates[steps + 1] = FinishOf(routeData[k])
      /\ \A n \in 1..(steps + 1) :
            /\ steps * (seg.coordinates[n][1] - seg.coordinates[1][1])
                 = (n - 1) * (seg.coordinates[steps + 1][1] - seg.coordinates[1][1])
            /\ steps * (seg.coordinates[n][2] - seg.coordinates[1][2])
                 = (n - 1) * (seg.coordinates[steps + 1][2] - seg.coordinates[1][2])

\* processSegmentData raised no error, and where it has finished it produced
\* one interpolated segment per input and counted no GPS match
DegradedGracefully ==
  /\ pc # "error"
  /\ pc = "done" =>
       /\ Len(coloradoTrailSegments) = Len(routeData)
       /\ \A k \in 1..Len(routeData) : IsInterpolated(k)
       /\ gpxMatchCount = 0

\* no parser object, a parser without tracks, or a first track without points
FirstTrackUnusable ==
  \/ ~trailGpxParser.present
  \/ Len(trailGpxParser.tracks) = 0
  \/ Len(At(trailGpxParser.tracks, 0).points) = 0

\* no parser object, or a parser none of whose tracks has a point
NoTrackHasPoints ==
  \/ ~trailGpxParser.present
  \/ \A t \in 1..Len(trailGpxParser.tracks) :
        Len(trailGpxParser.tracks[t].points) = 0

C5_ClosestIsGlobalNearest ==
  pc = "direct" =>
    LET found == findClosestPointIndex(GpxCoords, startCoords)
    IN  \A j \in 0..(Len(GpxCoords) - 1) :
          calculateDistance(At(GpxCoords, found), startCoords)
            <= calculateDistance(At(GpxCoords, j), startCoords)

\* C6: a path returned by the matcher, and the path of every GPS-matched
\* output segment, has been sampled when its raw points were more than 300:
\* none carries more than 300 points.
C6_GpsPathsAreSampled ==
  /\ (MatcherReturned /\ segmentPath.some) => Len(segmentPath.path) <= SampleAbove
  /\ \A k \in 1..Len(coloradoTrailSegments) :
        provenance[k] = "gps"
          => Len(coloradoTrailSegments[k].coordinates) <= SampleAbove

\* C7, as stated: for an array longer than targetPoints, intelligentSample
\* returns exactly targetPoints points, the first and the last of them the
\* first and the last of the array, for every targetPoints from 0 up.
C7_SampleHasTargetPoints ==
  (sampler.returned /\ Len(sampler.coordinates) > sampler.targetPoints)
    => /\ Len(sampler.result) = sampler.targetPoints
       /\ sampler.result[1] = sampler.coordinates[1]
       /\ sampler.result[Len(sampler.result)]
            = sampler.coordinates[Len(sampler.coordinates)]

\* C7, as it holds: the same for every targetPoints from 2 up.
C7_SampleHasTargetPointsFromTwo ==
  (/\ sampler.returned
   /\ Len(sampler.coordinates) > sampler.targetPoints
   /\ sampler.targetPoints >= 2)
    => /\ Len(sampler.result) = sampler.targetPoints
       /\ sampler.result[1] = sampler.coordinates[1]
       /\ sampler.result[Len(sampler.result)]
            = sampler.coordinates[Len(sampler.coordinates)]

\* an array was sampled down to a target that leaves interior points
C7_SampledWithInterior ==
  /\ pc = "sample"
  /\ sampler.returned
  /\ sampler.targetPoints >= 3
  /\ Len(sampler.coordinates) > sampler.targetPoints + 1
  /\ Len(sampler.result) = sampler.targetPoints

(***************************************************************************)
(* Properties of the winding test                                          *)
(***************************************************************************)
\* the candidate approach 1 hands to the winding test
DirectCandidate ==
  LET a == findClosestPointIndex(GpxCoords, startCoords)
      b == findClosestPointIndex(GpxCoords, endCoords)
  IN  AdjustEndpoints(variant,
                      SampleIfLong(Slice(GpxCoords, Min2(a, b), Max2(a, b) + 1)),
                      startCoords, endCoords)

\* approach 1 put a candidate to the winding test and returned its verdict
DirectTested ==
  /\ MatcherReturned
  /\ Len(tried) = 1
  /\ tried[1].outcome \in {"accepted", "rejected"}

\* C8: the winding test accepts a candidate exactly when its ratio lies
\* strictly between 0.5 and 10; ratio 1 is accepted; ratios 0.1, 15, 0.5 and
\* 10 are rejected.
C8_WindingTestBand ==
  DirectTested =>
    LET trail    == calculateTotalDistance(DirectCandidate)
        straight == calculateDistance(startCoords, endCoords)
    IN  /\ tried[1].outcome = "accepted"
             <=> (straight > 0 /\ 2 * trail > straight /\ trail < 10 * straight)
        /\ (straight > 0 /\ trail = straight) => tried[1].outcome = "accepted"
        /\ (straight > 0 /\ 10 * trail = straight) => tried[1].outcome = "rejected"
        /\ (straight > 0 /\ trail = 15 * straight) => tried[1].outcome = "rejected"
        /\ (straight > 0 /\ 2 * trail = straight) => tried[1].outcome = "rejected"
        /\ (straight > 0 /\ trail = 10 * straight) => tried[1].outcome = "rejected"

\* a candidate with ratio exactly 10 was rejected
C8_RatioTenRejected ==
  /\ DirectTested
  /\ tried[1].outcome = "rejected"
  /\ calculateDistance(startCoords, endCoords) > 0
  /\ calculateTotalDistance(DirectCandidate)
       = 10 * calculateDistance(startCoords, endCoords)

(***************************************************************************)
(* Properties of the assembled list and of the report                     *)
(***************************************************************************)
\* C9: the output list is as long as the input list, and its i-th entry
\* carries id i + 1 and the descriptive fields of the i-th input.
C9_OutputsMirrorInputs ==
  pc = "done" =>
    /\ Len(coloradoTrailSegments) = Len(routeData)
    /\ \A k \in 1..Len(routeData) :
          /\ coloradoTrailSegments[k].id = k
          /\ coloradoTrailSegments[k].name = routeData[k].name
          /\ coloradoTrailSegments[k].start_location = routeData[k].start_location
          /\ coloradoTrailSegments[k].finish_location = routeData[k].finish_location
          /\ coloradoTrailSegments[k].distance = routeData[k].distance
          /\ coloradoTrailSegments[k].notes = routeData[k].notes

\* a list of a matched and an interpolated segment was assembled
C9_MixedListAssembled ==
  /\ pc = "done"
  /\ Len(routeData) = 2
  /\ provenance = << "gps", "interpolated" >>

\* number of outputs built in the given way
BuiltCount(how) == Cardinality({k \in 1..Len(provenance) : provenance[k] = how})

\* C10: after all specs are processed with GPS data available, matched plus
\* interpolated count is the number of outputs, each count is the number of
\* outputs built that way, and the reported coverage is matched / total x 100
\* (as printed, to one decimal).
C10_CountsAndCoverage ==
  (pc = "done" /\ report.logged) =>
    /\ gpxMatchCount + interpolatedCount = Len(coloradoTrailSegments)
    /\ gpxMatchCount = BuiltCount("gps")
    /\ interpolatedCount = BuiltCount("interpolated")
    /\ report.total = Len(coloradoTrailSegments)
    /\ report.gps = gpxMatchCount
    /\ report.interpolated = interpolatedCount
    /\ report.coverage.nan <=> report.total = 0
    /\ report.total > 0 =>
         2 * Abs(report.coverage.tenths * report.total - 1000 * report.gps)
           <= report.total

\* a report of one matched and one interpolated segment: coverage 50.0
C10_HalfCoverageReported ==
  /\ pc = "done"
  /\ report.logged
  /\ report.gps = 1
  /\ report.interpolated = 1
  /\ report.coverage.tenths = 500

(***************************************************************************)
(* Properties of the segments processSegmentData builds                   *)
(***************************************************************************)
\* there is a first track with points for the matcher to work on
GpsTrackAvailable ==
  /\ trailGpxParser.present
  /\ Len(trailGpxParser.tracks) > 0
  /\ Len(At(trailGpxParser.tracks, 0).points) > 0

\* what the matcher returns for the k-th input on the first track
MatcherResult(k) ==
  findGpxSegmentForCoordinates(variant, At(trailGpxParser.tracks, 0),
                               StartOf(routeData[k]), FinishOf(routeData[k]))

\* C11: for each input the matcher is invoked on the GPS track; a returned
\* path becomes the coordinates, with its first and last point recorded as
\* start and end; without a match the coordinates are the interpolation
\* between the approximate targets, which are recorded as start and end.
\* Either way startCoords is coordinates[0] and endCoords the last element.
C11_SegmentsFollowMatcher ==
  (pc = "done" /\ GpsTrackAvailable) =>
    \A k \in 1..Len(coloradoTrailSegments) :
      LET seg == coloradoTrailSegments[k]
          m   == MatcherResult(k)
      IN  /\ UsesGpsPath(m) =>
                /\ seg.coordinates = m.path
                /\ seg.startCoords = m.path[1]
                /\ seg.endCoords = m.path[Len(m.path)]
          /\ ~UsesGpsPath(m) =>
                /\ seg.coordinates = createInterpolatedPath(StartOf(routeData[k]),
                                                            FinishOf(routeData[k]))
                /\ seg.startCoords = StartOf(routeData[k])
                /\ seg.endCoords = FinishOf(routeData[k])
          /\ seg.startCoords = seg.coordinates[1]
          /\ seg.endCoords = seg.coordinates[Len(seg.coordinates)]

C13_MatchingKeepsTrack ==
  [][pc # "boot" => /\ trailGpxParser' = trailGpxParser
                    /\ gpxTrailPoints' = gpxTrailPoints]_vars

\* a second call of the matcher returned a path snapped to a target that is
\* no point of the track
C13_SnappedPathReturned ==
  /\ MatcherReturned
  /\ variant = "snap"
  /\ i >= 1
  /\ segmentPath.some
  /\ segmentPath.path[1] = startCoords
  /\ \A k \in 1..Len(GpxCoords) : GpxCoords[k] # startCoords
  /\ gpxTrailPoints = GpxCoords

(***************************************************************************)
(* Two calls of processSegmentData on the same inputs                      *)
(***************************************************************************)
\* C14: when processSegmentData has run a second time on the same route list
\* and the same GPS data, the segment list it produces is identical to the
\* list the first call produced.
C14_SecondRunRepeatsFirst ==
  pc = "done" /\ runs >= 1 => coloradoTrailSegments = firstRun

\* a second call finished on a list of two segments of which one follows the
\* GPS track and one is interpolated
C14_MixedListRepeated ==
  /\ pc = "done"
  /\ runs = 1
  /\ Len(firstRun) = 2
  /\ \E k \in 1..2 : provenance[k] = "gps"
  /\ \E k \in 1..2 : provenance[k] = "interpolated"

(***************************************************************************)
(* Ties in findClosestPointIndex                                           *)
(***************************************************************************)
\* the indices of the track whose point is at the minimal distance from target
NearestIndices(coordinates, target) ==
  {j \in 0..(Len(coordinates) - 1) :
     \A k \in 0..(Len(coordinates) - 1) :
       calculateDistance(At(coordinates, j), target)
         <= calculateDistance(At(coordinates, k), target)}

SmallestOf(S) == CHOOSE j \in S : \A k \in S : j <= k

\* C15: when several indices of the track are at the same minimal distance
\* from the target, findClosestPointIndex returns the smallest of them.
C15_TieGoesToSmallestIndex ==
  pc = "direct" =>
    \A target \in {startCoords, endCoords} :
      LET tied == NearestIndices(GpxCoords, target)
      IN  Cardinality(tied) >= 2
            => findClosestPointIndex(GpxCoords, target) = SmallestOf(tied)

(***************************************************************************)
(* findNearbyIndices                                                       *)
(***************************************************************************)
\* the lists strategy 2 obtains for its two targets
NearbyLists ==
  {findNearbyIndices(GpxCoords, startCoords, maxDistance),
   findNearbyIndices(GpxCoords, endCoords, maxDistance)}

NearbyTarget(list) ==
  IF list = findNearbyIndices(GpxCoords, startCoords, maxDistance)
  THEN startCoords ELSE endCoords

\* C16: findNearbyIndices returns one (index, distance) entry for exactly the
\* track indices whose distance to the target is at most maxDistance (the
\* bound included), none missed and none repeated, each with its distance,
\* and the entries are in order of non-decreasing distance.
C16_NearbyIsExactAndSorted ==
  pc = "nearby" =>
    \A list \in NearbyLists :
      LET target == NearbyTarget(list)
          within == {j \in 0..(Len(GpxCoords) - 1) :
                       calculateDistance(At(GpxCoords, j), target) <= maxDistance}
      IN  /\ {list[k].index : k \in 1..Len(list)} = within
          /\ Len(list) = Cardinality(within)
          /\ \A k \in 1..Len(list) :
                list[k].distance = calculateDistance(At(GpxCoords, list[k].index), target)
          /\ \A k \in 1..(Len(list) - 1) : list[k].distance <= list[k + 1].distance

\* strategy 2 gets a list whose order is not the track's order and whose
\* last entry lies at maxDistance exactly
C16_BoundaryEntryListed ==
  /\ pc = "nearby"
  /\ \E list \in NearbyLists :
        /\ Len(list) >= 2
        /\ list[1].index > list[2].index
        /\ list[Len(list)].distance = maxDistance

(***************************************************************************)
(* One endpoint policy per file                                            *)
(***************************************************************************)
\* path is the track's points lo .. hi as recorded, whole or sampled
RecordedRange(path, lo, hi) ==
  LET raw == Slice(GpxCoords, lo, hi + 1)
  IN  /\ path[1] = At(GpxCoords, lo)
      /\ path[Len(path)] = At(GpxCoords, hi)
      /\ path \in {raw, SampleIfLong(raw)}

\* path runs between two recorded points of the track
EndsOnTrack(path) ==
  \E lo \in {j \in 0..(Len(GpxCoords) - 1) : At(GpxCoords, j) = path[1]} :
    \E hi \in {j \in (lo + 1)..(Len(GpxCoords) - 1) :
                  At(GpxCoords, j) = path[Len(path)]} :
      RecordedRange(path, lo, hi)

\* C17: within one file the end points of an accepted path are treated the
\* same by all three approaches: in part_000 the path begins at the target
\* start and ends at the target end; in main.js it begins and ends at the
\* recorded track points at the two ends of the chosen index range.
C17_EndpointPolicyUniform ==
  (MatcherReturned /\ segmentPath.some) =>
    /\ Len(tried) \in 1..3
    /\ tried[Len(tried)].outcome = "accepted"
    /\ variant = "snap" =>
          /\ segmentPath.path[1] = startCoords
          /\ segmentPath.path[Len(segmentPath.path)] = endCoords
    /\ variant = "preserve" => EndsOnTrack(segmentPath.path)

\* approach 3 of main.js returned a range of the track that begins and ends
\* away from the targets
C17_BudgetRangeKeptAsRecorded ==
  /\ MatcherReturned
  /\ variant = "preserve"
  /\ Len(tried) = 3
  /\ segmentPath.some
  /\ segmentPath.path[1] # startCoords
  /\ segmentPath.path[Len(segmentPath.path)] # endCoords

(***************************************************************************)
(* intelligentSample on short arrays                                       *)
(***************************************************************************)
\* C18: intelligentSample returns its input as it is, the same points in the
\* same order, whenever the input has at most targetPoints points.
C18_ShortInputReturnedUnchanged ==
  (sampler.returned /\ Len(sampler.coordinates) <= sampler.targetPoints)
    => sampler.result = sampler.coordinates

\* the sampler returned for an array of exactly targetPoints points
C18_ReturnedAtTheLimit ==
  /\ pc = "sample"
  /\ sampler.returned
  /\ Len(sampler.coordinates) = sampler.targetPoints
  /\ sampler.targetPoints >= 1
  /\ Len(sampler.result) = sampler.targetPoints

(***************************************************************************)
(* The candidate of approach 1                                             *)
(***************************************************************************)
\* the points of the track from the smaller to the larger of the two nearest
\* indices, thinned out when they are more than 300
DirectSubsequence ==
  LET a == findClosestPointIndex(GpxCoords, startCoords)
      b == findClosestPointIndex(GpxCoords, endCoords)
  IN  SampleIfLong(Slice(GpxCoords, Min2(a, b), Max2(a, b) + 1))

\* the track is a straight line of evenly spaced points and both targets are
\* points of it, at different indices
TargetsOnStraightTrack ==
  /\ Len(GpxCoords) >= 2
  /\ GpxCoords[1] # GpxCoords[2]
  /\ \A k \in 1..(Len(GpxCoords) - 1) :
        /\ GpxCoords[k + 1][1] - GpxCoords[k][1] = GpxCoords[2][1] - GpxCoords[1][1]
        /\ GpxCoords[k + 1][2] - GpxCoords[k][2] = GpxCoords[2][2] - GpxCoords[1][2]
  /\ startCoords # endCoords
  /\ \E k \in 1..Len(GpxCoords) : GpxCoords[k] = startCoords
  /\ \E k \in 1..Len(GpxCoords) : GpxCoords[k] = endCoords

\* C19: when both nearest points are within maxDistance, what approach 1
\* puts to the winding test is the sub-sequence of the track between the two
\* nearest indices, so that its verdict is the verdict of the test on that
\* sub-sequence; and on a straight evenly spaced track with the targets on it
\* at different indices approach 1 accepts and the segment is GPS-matched.
C19_DirectTestsSubsequence ==
  /\ DirectTested =>
        LET trail    == calculateTotalDistance(DirectSubsequence)
            straight == calculateDistance(startCoords, endCoords)
        IN  tried[1].outcome = "accepted"
              <=> (straight > 0 /\ 2 * trail > straight /\ trail < 10 * straight)
  /\ (MatcherReturned /\ TargetsOnStraightTrack) =>
        /\ Len(tried) = 1
        /\ tried[1].outcome = "accepted"
        /\ segmentPath.some

(***************************************************************************)
(* The choice approach 2 makes                                             *)
(***************************************************************************)
\* the nearest candidates approach 2 keeps for a target
NearestTo(target) ==
  Slice(findNearbyIndices(GpxCoords, target, maxDistance), 0, NearbyLimit)

\* the path the winding test lets through for the a-th start candidate and
\* the b-th end candidate
PairingPath(starts, ends, p) ==
  extractGpsTrackBetweenPoints(variant, GpxCoords, starts[p[1]].index,
                               ends[p[2]].index, startCoords, endCoords)

\* the pairings of two different track indices that pass the winding test
AcceptedPairings(starts, ends) ==
  {p \in (1..Len(starts)) \X (1..Len(ends)) :
     /\ starts[p[1]].index # ends[p[2]].index
     /\ PairingPath(starts, ends, p).some}

PairingScore(starts, ends, p) == starts[p[1]].distance + ends[p[2]].distance

\* p is met no later than q by the loop over starts with the loop over ends
\* inside it
MetFirst(p, q) == p[1] < q[1] \/ (p[1] = q[1] /\ p[2] <= q[2])

\* C20: approach 2 pairs the (at most) 5 nearest start candidates with the
\* (at most) 5 nearest end candidates, leaves out pairings of one track
\* index with itself, and returns the path of the pairing with the smallest
\* sum of the two distances among those that pass the winding test, the one
\* met first when sums are equal; it finds nothing only when none passes.
C20_BestPairingReturned ==
  (pc \in {"return", "budget"} /\ Len(tried) = 2) =>
    LET starts   == NearestTo(startCoords)
        ends     == NearestTo(endCoords)
        accepted == AcceptedPairings(starts, ends)
    IN  /\ Len(starts) <= 5
        /\ Len(ends) <= 5
        /\ Cardinality(accepted) <= 25
        /\ tried[2].outcome = "accepted" <=> accepted # {}
        /\ tried[2].outcome = "accepted" =>
              \E p \in accepted :
                /\ \A q \in accepted :
                      \/ PairingScore(starts, ends, p) < PairingScore(starts, ends, q)
                      \/ /\ PairingScore(starts, ends, p) = PairingScore(starts, ends, q)
                         /\ MetFirst(p, q)
                /\ segmentPath = PairingPath(starts, ends, p)

\* approach 2 returned the first of two equally scored pairings with
\* different paths, for a target with more than 5 points nearby
C20_TieKeptFirstOfSix ==
  /\ MatcherReturned
  /\ Len(tried) = 2
  /\ Len(findNearbyIndices(GpxCoords, endCoords, maxDistance)) > NearbyLimit
  /\ LET starts   == NearestTo(startCoords)
         ends     == NearestTo(endCoords)
         accepted == AcceptedPairings(starts, ends)
     IN  \E p, q \in accepted :
           /\ p # q
           /\ MetFirst(p, q)
           /\ PairingScore(starts, ends, p) = PairingScore(starts, ends, q)
           /\ \A r \in accepted :
                 PairingScore(starts, ends, p) <= PairingScore(starts, ends, r)
           /\ PairingPath(starts, ends, p) # PairingPath(starts, ends, q)
           /\ segmentPath = PairingPath(starts, ends, p)

(***************************************************************************)
(* The range approach 3 returns                                            *)
(***************************************************************************)
\* the index pairs at least MinGap apart whose cumulative distance is within
\* half the target distance of it
BudgetPairs(track, target) ==
  LET n == Len(track.points)
  IN  {p \in (0..(n - 1)) \X (0..(n - 1)) :
         /\ p[2] >= p[1] + MinGap
         /\ WithinBudget(At(track.distance.cumul, p[2]) - At(track.distance.cumul, p[1]),
                         target)}

\* C21: approach 3 returns only the range of the track between the first
\* pair of indices (i, j), i ascending and then j ascending, with j >= i + 10
\* and |d - target| / target < 0.5, d the difference of the cumulative
\* distances and target the planar distance of the targets times 111000; it
\* returns no match when the cumulative distances are missing or are not as
\* many as the points, and when the track has 10 points or fewer.
C21_BudgetReturnsFirstPair ==
  (MatcherReturned /\ Len(tried) = 3) =>
    LET track  == At(trailGpxParser.tracks, 0)
        n      == Len(track.points)
        usable == track.distance.hasCumul /\ Len(track.distance.cumul) = n
        pairs  == BudgetPairs(track, TargetMeters(startCoords, endCoords))
    IN  /\ (~usable \/ n <= MinGap) => ~segmentPath.some
        /\ usable => (segmentPath.some <=> pairs # {})
        /\ segmentPath.some =>
              \E p \in pairs :
                /\ \A q \in pairs : p[1] < q[1] \/ (p[1] = q[1] /\ p[2] <= q[2])
                /\ segmentPath.path
                     = AdjustEndpoints(variant,
                                       ToCoords(Slice(track.points, p[1], p[2] + 1)),
                                       startCoords, endCoords)

\* approach 3 returned a range although a later pair of indices meets the
\* budget as well
C21_FirstOfSeveralPairs ==
  /\ MatcherReturned
  /\ Len(tried) = 3
  /\ segmentPath.some
  /\ Cardinality(BudgetPairs(At(trailGpxParser.tracks, 0),
                             TargetMeters(startCoords, endCoords))) >= 2

(***************************************************************************)
(* Properties of the route animation                                       *)
(***************************************************************************)
\* C22: after resetAnimation was called while an animation was running, and
\* until startAnimation is called again, no polyline is added to the map and
\* currentSegmentIndex stays 0, whichever pending callbacks run.
C22_ResetStopsAnimation ==
  afterReset => /\ currentSegmentIndex = 0
                /\ routeLines = << >>

\* C23: at most one animation chain is in progress at any time: there is
\* never more than one pending timer that will run animateNextSegment or the
\* callback that advances to the next segment.
C23_OneChainAtATime ==
  Cardinality(timers) <= 1

\* the polylines on the map are those of segments 0, 1, ... in this order
DrawnInOrder ==
  /\ Len(routeLines) <= Len(coloradoTrailSegments)
  /\ \A k \in 1..Len(routeLines) : routeLines[k] = Polyline(k - 1)

\* the animation has ended: button enabled, message shown, every segment drawn
AnimationCompleted ==
  /\ ~isAnimating
  /\ ~animateDisabled
  /\ completionShown
  /\ Len(routeLines) = Len(coloradoTrailSegments)

\* C24: when startAnimation is called with one or more segments loaded and
\* the animation is not reset, the segments are drawn in the order 0, 1, ...,
\* n - 1, each once, and the animation completes in the end: isAnimating is
\* false, the animate button is enabled and the completion message is shown;
\* a call of startAnimation while isAnimating is true changes nothing.
C24_AnimationRunsToCompletion ==
  /\ [](DrawnInOrder /\ (isAnimating => Len(routeLines) = currentSegmentIndex + 1 \/
                                        Len(routeLines) = currentSegmentIndex))
  /\ [](isAnimating => <>(AnimationCompleted /\ DrawnInOrder))
  /\ [][(isAnimating /\ startAnimation) => UNCHANGED vars]_vars

\* an animation of three segments has completed
C24_ThreeSegmentsCompleted ==
  /\ AnimationCompleted
  /\ Len(routeLines) = 3
  /\ currentSegmentIndex = 3
  /\ timers = {}

\* routeLines holds no segment twice
NoSegmentTwice ==
  \A j, k \in 1..Len(routeLines) : j # k => routeLines[j] # routeLines[k]

\* C25: in every reachable state of the animation currentSegmentIndex lies
\* between 0 and the number of loaded segments, and while an animation runs
\* no segment's polyline has been added to routeLines more than once.
C25_IndexInRangeAndDrawnOnce ==
  /\ currentSegmentIndex \in 0..Len(coloradoTrailSegments)
  /\ isAnimating => NoSegmentTwice

(***************************************************************************)
(* Approach 2 behind an exact nearest-point search                         *)
(***************************************************************************)
\* findClosestPointIndex has found a point that no point of the track beats
FoundGlobalNearest(target) ==
  LET found == calculateDistance(At(GpxCoords, findClosestPointIndex(GpxCoords, target)),
                                 target)
  IN  \A j \in 0..(Len(GpxCoords) - 1) :
        found <= calculateDistance(At(GpxCoords, j), target)

\* approach 2 has been evaluated in the current call of the matcher
NearbyEvaluated == pc \in {"return", "budget"} /\ Len(tried) >= 2

\* C26: if findClosestPointIndex returns a globally nearest index for both
\* targets, approach 2 never yields a path: it is reached only when a
\* nearest distance exceeds maxDistance, and then the list of nearby indices
\* of that target is empty and no pairing is evaluated.
C26_NearbyFindsNothingAfterExactSearch ==
  (NearbyEvaluated /\ FoundGlobalNearest(startCoords) /\ FoundGlobalNearest(endCoords))
    => /\ tried[2].outcome = "none"
       /\ \/ findNearbyIndices(GpxCoords, startCoords, maxDistance) = << >>
          \/ findNearbyIndices(GpxCoords, endCoords, maxDistance) = << >>

\* approach 2 was evaluated behind an exact search with points near the
\* start but none near the end
C26_OnlyStartHasNearby ==
  /\ NearbyEvaluated
  /\ FoundGlobalNearest(startCoords)
  /\ FoundGlobalNearest(endCoords)
  /\ Len(findNearbyIndices(GpxCoords, startCoords, maxDistance)) >= 2
  /\ findNearbyIndices(GpxCoords, endCoords, maxDistance) = << >>

(***************************************************************************)
(* Segments whose two targets coincide                                     *)
(***************************************************************************)
\* C27: a segment whose approximate start and end are equal is never
\* GPS-matched: the matcher returns no path for it from any approach (the
\* straight distance is 0, so no winding ratio and no relative error
\* passes), and processSegmentData resolves it by interpolation without
\* raising an error.
C27_CoincidingTargetsInterpolated ==
  /\ (MatcherReturned /\ startCoords = endCoords) =>
        /\ ~segmentPath.some
        /\ \A k \in 1..Len(tried) : tried[k].outcome # "accepted"
  /\ pc = "done" =>
        \A k \in 1..Len(coloradoTrailSegments) :
          StartOf(routeData[k]) = FinishOf(routeData[k])
            => /\ provenance[k] = "interpolated"
               /\ coloradoTrailSegments[k].coordinates
                    = createInterpolatedPath(StartOf(routeData[k]), FinishOf(routeData[k]))
  /\ pc = "error" => \A k \in 1..Len(routeData) :
                        StartOf(routeData[k]) # FinishOf(routeData[k])

(***************************************************************************)
(* The direction of an extracted path                                      *)
(***************************************************************************)
\* the track index the k-th point of a path extracted from lo .. hi was
\* taken from
TrackIndexOf(lo, hi, k) ==
  IF hi - lo + 1 > SampleAbove
  THEN IF k = SampleTo THEN hi
       ELSE lo + SampleIndex(hi - lo + 1, SampleTo, k - 1)
  ELSE lo + k - 1

\* the interior of path is taken from strictly ascending indices of the
\* track between lo and hi, and its ends follow the file's endpoint policy
RunsAscending(path, a, b) ==
  LET lo == Min2(a, b)
      hi == Max2(a, b)
  IN  /\ Len(path) = IF hi - lo + 1 > SampleAbove THEN SampleTo ELSE hi - lo + 1
      /\ \A k \in 1..(Len(path) - 1) :
            lo <= TrackIndexOf(lo, hi, k) /\ TrackIndexOf(lo, hi, k) < TrackIndexOf(lo, hi, k + 1)
      /\ TrackIndexOf(lo, hi, Len(path)) = hi
      /\ \A k \in 2..(Len(path) - 1) : path[k] = At(GpxCoords, TrackIndexOf(lo, hi, k))
      /\ variant = "snap" => path[1] = startCoords /\ path[Len(path)] = endCoords
      /\ variant = "preserve" => path[1] = At(GpxCoords, lo) /\ path[Len(path)] = At(GpxCoords, hi)

\* C28: the interior points of a path returned by
\* extractGpsTrackBetweenPoints are in ascending order of track index, also
\* when the index chosen for the end comes before the index chosen for the
\* start; in part_000 the path then begins at the target start and ends at
\* the target end while its interior runs from the end's side of the track
\* to the start's side.
C28_ExtractedPathAscends ==
  /\ (MatcherReturned /\ Len(tried) = 1 /\ segmentPath.some) =>
        RunsAscending(segmentPath.path,
                      findClosestPointIndex(GpxCoords, startCoords),
                      findClosestPointIndex(GpxCoords, endCoords))
  /\ (MatcherReturned /\ Len(tried) = 2 /\ segmentPath.some) =>
        LET starts == NearestTo(startCoords)
            ends   == NearestTo(endCoords)
        IN  \E a \in 1..Len(starts), b \in 1..Len(ends) :
              /\ starts[a].index # ends[b].index
              /\ RunsAscending(segmentPath.path, starts[a].index, ends[b].index)

\* part_000 returned a path with interior points for a start target that
\* lies nearest a later point of the track than the end target does
C28_EndBeforeStart ==
  /\ MatcherReturned
  /\ Len(tried) = 1
  /\ segmentPath.some
  /\ variant = "snap"
  /\ findClosestPointIndex(GpxCoords, startCoords)
       > findClosestPointIndex(GpxCoords, endCoords) + 1
  /\ segmentPath.path[2] # segmentPath.path[Len(segmentPath.path) - 1]

(***************************************************************************)
(* The positions intelligentSample selects                                 *)
(***************************************************************************)
\* the input index of the j-th selected point, j = 0 .. targetPoints - 1
SelectedIndex(length, targetPoints, j) ==
  IF j = 0 THEN 0
  ELSE IF j = targetPoints - 1 THEN length - 1
  ELSE SampleIndex(length, targetPoints, j)

\* C29: for an input longer than targetPoints, with targetPoints at least 2,
\* the input indices intelligentSample selects (0, then round(i * step) for
\* 1 <= i < targetPoints - 1, then length - 1) are strictly increasing and
\* lie within 0 .. length - 1: the result keeps the input's order and holds
\* no input position twice.
C29_SelectedIndicesIncrease ==
  (/\ sampler.returned
   /\ Len(sampler.coordinates) > sampler.targetPoints
   /\ sampler.targetPoints >= 2)
    => LET n == Len(sampler.coordinates)
           k == sampler.targetPoints
       IN  /\ Len(sampler.result) = k
           /\ \A j \in 0..(k - 1) :
                 /\ SelectedIndex(n, k, j) \in 0..(n - 1)
                 /\ sampler.result[j + 1] = At(sampler.coordinates, SelectedIndex(n, k, j))
           /\ \A j \in 0..(k - 2) : SelectedIndex(n, k, j) < SelectedIndex(n, k, j + 1)
           /\ \A j, m \in 1..k : j # m => sampler.result[j] # sampler.result[m]

\* an input one point longer than targetPoints was sampled: consecutive
\* selected indices are as close as they get
C29_SampledWithSmallestStep ==
  /\ pc = "sample"
  /\ sampler.returned
  /\ sampler.targetPoints >= 4
  /\ Len(sampler.coordinates) = sampler.targetPoints + 1
  /\ Len(sampler.result) = sampler.targetPoints

(***************************************************************************)
(* The named-track variant: which segments are built from GPS points      *)
(***************************************************************************)
\* the GPX tracks, in file order, whose name starts with the code at 0-based
\* position pos of the fixed segment order, letter case ignored
TracksNamedFor(tracks, pos) ==
  IF pos >= Len(SEGMENT_ORDER) THEN {}
  ELSE LET code == SEGMENT_ORDER[pos + 1]
       IN  {t \in 1..Len(tracks) :
              /\ Len(tracks[t].name) >= Len(code)
              /\ \A c \in 1..Len(code) :
                    LowerChar(tracks[t].name[c]) = LowerChar(code[c])}

FirstOf(S) == CHOOSE t \in S : \A u \in S : t <= u

\* C30: in the named-track variant the segment at input position pos is built
\* from GPS points exactly when pos < 15, some track's name starts, letter
\* case ignored, with the pos-th code of the segment order, and the first such
\* track in file order has at least 2 points; its coordinates are then that
\* whole track and its start and end the track's first and last point.  Every
\* other segment is interpolated between the spec's approximate end points.
C30_NamedTrackDecidesGps ==
  (pc = "done" /\ variant = "preserve") =>
    /\ Len(coloradoTrailSegments) = Len(routeData)
    /\ \A k \in 1..Len(routeData) :
          LET tracks == trailGpxParser.tracks
              named  == TracksNamedFor(tracks, k - 1)
              seg    == coloradoTrailSegments[k]
          IN  IF /\ k - 1 < 15
                 /\ named # {}
                 /\ Len(tracks[FirstOf(named)].points) >= 2
              THEN LET points == tracks[FirstOf(named)].points
                   IN  /\ provenance[k] = "gps"
                       /\ seg.coordinates = ToCoords(points)
                       /\ seg.startCoords = ToCoords(points)[1]
                       /\ seg.endCoords = ToCoords(points)[Len(points)]
              ELSE /\ provenance[k] = "interpolated"
                   /\ seg = InterpolatedSegment(routeData[k], k - 1)

\* a list longer than the segment order was processed against a file whose
\* only track carries a late code in lower case: entry 12 is built from the
\* track, entry 16 is interpolated
C30_LateCodeAndBeyondOrder ==
  /\ pc = "done" /\ variant = "preserve"
  /\ Len(routeData) > Len(SEGMENT_ORDER)
  /\ provenance[12] = "gps"
  /\ provenance[Len(SEGMENT_ORDER) + 1] = "interpolated"
  /\ coloradoTrailSegments[Len(SEGMENT_ORDER) + 1].coordinates
       = createInterpolatedPath(StartOf(routeData[Len(SEGMENT_ORDER) + 1]),
                                FinishOf(routeData[Len(SEGMENT_ORDER) + 1]))

=============================================================================
